---- MODULE Spec2Model ----
(***************************************************************************)
(* A model of the flowchart generation route (src/app/api/generate/        *)
(* route.ts): the schema sanitizer validateFlowchart, the extractor        *)
(* extractJSON, the rule-based generator generateLocalFlowchart, the two   *)
(* provider adapters and the POST handler that chains them.                *)
(*                                                                         *)
(* JavaScript values are records tagged by their type in the field t.  A   *)
(* JavaScript string is a sequence of one-character strings, so that       *)
(* slicing, concatenation and emptiness are what they are in the code.     *)
(***************************************************************************)
EXTENDS Integers, Sequences, FiniteSets, TLC

\* ------------------------------------------------------------------------
\* JavaScript values
\* ------------------------------------------------------------------------

Undefined == [t |-> "undefined"]
Null == [t |-> "null"]
Bool(b) == [t |-> "boolean", b |-> b]
Num(n) == [t |-> "number", n |-> n]
Str(s) == [t |-> "string", s |-> s]
Arr(a) == [t |-> "array", a |-> a]

\* value.field, and value?.field: undefined when the value has no such field
Get(v, f) == IF v.t = "object" /\ f \in DOMAIN v THEN v[f] ELSE Undefined

\* the truthiness of a value, as in `if (v)`, `v && ...`, `!v`
Truthy(v) ==
  CASE v.t = "undefined" -> FALSE
    [] v.t = "null" -> FALSE
    [] v.t = "boolean" -> v.b
    [] v.t = "number" -> v.n # 0
    [] v.t = "string" -> v.s # <<>>
    [] OTHER -> TRUE

Digit(d) == <<"0", "1", "2", "3", "4", "5", "6", "7", "8", "9">>[d + 1]

RECURSIVE NatToString(_)
NatToString(n) == IF n < 10 THEN <<Digit(n)>> ELSE NatToString(n \div 10) \o <<Digit(n % 10)>>

RECURSIVE StringOf(_)
RECURSIVE JoinValues(_)
\* Array.prototype.join(","), which String(array) uses: null and undefined
\* elements give the empty string
JoinValues(a) ==
  IF a = <<>> THEN <<>>
  ELSE LET h == IF Head(a).t \in {"undefined", "null"} THEN <<>> ELSE StringOf(Head(a))
       IN IF Len(a) = 1 THEN h ELSE h \o <<",">> \o JoinValues(Tail(a))

\* String(v), and the conversion a template literal applies
StringOf(v) ==
  CASE v.t = "string" -> v.s
    [] v.t = "number" -> IF v.n < 0 THEN <<"-">> \o NatToString(-v.n) ELSE NatToString(v.n)
    [] v.t = "boolean" -> IF v.b THEN <<"t", "r", "u", "e">> ELSE <<"f", "a", "l", "s", "e">>
    [] v.t = "undefined" -> <<"u", "n", "d", "e", "f", "i", "n", "e", "d">>
    [] v.t = "null" -> <<"n", "u", "l", "l">>
    [] v.t = "array" -> JoinValues(v.a)
    [] OTHER -> <<"[", "o", "b", "j", "e", "c", "t", " ", "O", "b", "j", "e", "c", "t", "]">>

\* String.prototype.slice(0, n)
Slice0(s, n) == SubSeq(s, 1, IF Len(s) < n THEN Len(s) ELSE n)

\* Array.prototype.map
MapSeq(s, F(_)) == [i \in 1..Len(s) |-> F(s[i])]

\* ------------------------------------------------------------------------
\* validateFlowchart
\* ------------------------------------------------------------------------

sProcess == <<"p", "r", "o", "c", "e", "s", "s">>
sDecision == <<"d", "e", "c", "i", "s", "i", "o", "n">>
sStartEnd == <<"s", "t", "a", "r", "t", "E", "n", "d">>
sInputOutput == <<"i", "n", "p", "u", "t", "O", "u", "t", "p", "u", "t">>

VALID_NODE_TYPES == {Str(sProcess), Str(sDecision), Str(sStartEnd), Str(sInputOutput)}

LabelMax == 40
DefaultX == 250
DefaultY == 0

\* the filter of the node pass
NodeKept(n) == Truthy(n) /\ Truthy(Get(n, "id")) /\ Truthy(Get(Get(n, "data"), "label"))

\* the map of the node pass
SanitizeNode(n) ==
  [t |-> "object",
   id |-> Str(StringOf(Get(n, "id"))),
   type |-> IF Get(n, "type") \in VALID_NODE_TYPES THEN Get(n, "type") ELSE Str(sProcess),
   position |->
     [t |-> "object",
      x |-> IF Get(Get(n, "position"), "x").t = "number"
              THEN Get(Get(n, "position"), "x") ELSE Num(DefaultX),
      y |-> IF Get(Get(n, "position"), "y").t = "number"
              THEN Get(Get(n, "position"), "y") ELSE Num(DefaultY)],
   data |-> [t |-> "object",
             label |-> Str(Slice0(StringOf(Get(Get(n, "data"), "label")), LabelMax))]]

\* the membership set the node pass fills
NodeIdSet(nodes) == {nodes[i].id.s : i \in 1..Len(nodes)}

\* EdgeKept as it would be if the filter did not look the endpoints up
EdgeKeptUnchecked(e, nodeIds) ==
  /\ Truthy(e)
  /\ Truthy(Get(e, "source"))
  /\ Truthy(Get(e, "target"))

\* EdgeKept as it would be if the filter looked up the source only
EdgeKeptSourceOnly(e, nodeIds) ==
  /\ Truthy(e)
  /\ Truthy(Get(e, "source"))
  /\ Truthy(Get(e, "target"))
  /\ StringOf(Get(e, "source")) \in nodeIds

\* the filter of the edge pass
EdgeKept(e, nodeIds) ==
  /\ Truthy(e)
  /\ Truthy(Get(e, "source"))
  /\ Truthy(Get(e, "target"))
  /\ StringOf(Get(e, "source")) \in nodeIds
  /\ StringOf(Get(e, "target")) \in nodeIds

SynthEdgeId(e) ==
  <<"e", "-">> \o StringOf(Get(e, "source")) \o <<"-">> \o StringOf(Get(e, "target"))

\* the map of the edge pass; the label key is present only if the raw label is truthy
SanitizeEdge(e) ==
  IF Truthy(Get(e, "label"))
    THEN [t |-> "object",
          id |-> IF Truthy(Get(e, "id")) THEN Str(StringOf(Get(e, "id")))
                 ELSE Str(SynthEdgeId(e)),
          source |-> Str(StringOf(Get(e, "source"))),
          target |-> Str(StringOf(Get(e, "target"))),
          label |-> Str(StringOf(Get(e, "label"))),
          animated |-> Bool(TRUE)]
    ELSE [t |-> "object",
          id |-> IF Truthy(Get(e, "id")) THEN Str(StringOf(Get(e, "id")))
                 ELSE Str(SynthEdgeId(e)),
          source |-> Str(StringOf(Get(e, "source"))),
          target |-> Str(StringOf(Get(e, "target"))),
          animated |-> Bool(TRUE)]

\* the node pass of validateFlowchart
NodePass(rawNodes) == MapSeq(SelectSeq(rawNodes, NodeKept), SanitizeNode)

\* the edge pass of validateFlowchart, against the ids the node pass collected
EdgePass(rawEdges, nodeIds) ==
  MapSeq(SelectSeq(rawEdges, LAMBDA e : EdgeKept(e, nodeIds)), SanitizeEdge)

\* AfterNodePass as it would be without the `nodes.length === 0` check
AfterNodePassUnchecked(data, nodes) ==
  [t |-> "object",
   nodes |-> Arr(nodes),
   edges |-> Arr(EdgePass(data.edges.a, NodeIdSet(nodes)))]

\* validateFlowchart from the end of the node pass on
AfterNodePass(data, nodes) ==
  IF Len(nodes) = 0 THEN Null
  ELSE [t |-> "object",
        nodes |-> Arr(nodes),
        edges |-> Arr(EdgePass(data.edges.a, NodeIdSet(nodes)))]

validateFlowchart(data) ==
  IF ~Truthy(data) \/ Get(data, "nodes").t # "array" \/ Get(data, "edges").t # "array"
    THEN Null
  ELSE IF Len(Get(data, "nodes").a) = 0 THEN Null
  ELSE AfterNodePass(data, NodePass(data.nodes.a))

\* ------------------------------------------------------------------------
\* generateLocalFlowchart
\* ------------------------------------------------------------------------

\* U+2192, the one character of a prompt that is written here as a longer token
RightArrow == "u2192"

WhiteSpace == {" ", "\n", "\t"}

\* String.prototype.split(/→|->|,/)
RECURSIVE SplitFrom(_, _, _)
SplitFrom(s, i, cur) ==
  IF i > Len(s) THEN <<cur>>
  ELSE IF s[i] = "," \/ s[i] = RightArrow THEN <<cur>> \o SplitFrom(s, i + 1, <<>>)
  ELSE IF s[i] = "-" /\ i < Len(s) /\ s[i + 1] = ">" THEN <<cur>> \o SplitFrom(s, i + 2, <<>>)
  ELSE SplitFrom(s, i + 1, Append(cur, s[i]))

Split(s) == SplitFrom(s, 1, <<>>)

\* String.prototype.trim
RECURSIVE Trim(_)
Trim(s) ==
  IF s = <<>> THEN s
  ELSE IF Head(s) \in WhiteSpace THEN Trim(Tail(s))
  ELSE IF s[Len(s)] \in WhiteSpace THEN Trim(SubSeq(s, 1, Len(s) - 1))
  ELSE s

\* the prompt's trimmed non-empty segments
Parts(prompt) == SelectSeq(MapSeq(Split(prompt), Trim), LAMBDA p : Len(p) > 0)

\* String.prototype.replace(/[()]/g, "")
StripParens(s) == SelectSeq(s, LAMBDA c : c \notin {"(", ")"})

\* String.prototype.includes
Includes(s, sub) ==
  \E i \in 1..(Len(s) - Len(sub) + 1) : SubSeq(s, i, i + Len(sub) - 1) = sub

kCheck == <<"c", "h", "e", "c", "k">>
kVerify == <<"v", "e", "r", "i", "f", "y">>
kValidate == <<"v", "a", "l", "i", "d", "a", "t", "e">>
kIf == <<"i", "f", " ">>
kQuestion == <<"?">>

\* isDecision as it would be without the keyword check
isDecisionNoCheck(part) ==
  \/ Includes(part, kVerify)
  \/ Includes(part, kValidate)
  \/ Includes(part, kIf)
  \/ Includes(part, kQuestion)

isDecision(part) ==
  \/ Includes(part, kCheck)
  \/ Includes(part, kVerify)
  \/ Includes(part, kValidate)
  \/ Includes(part, kIf)
  \/ Includes(part, kQuestion)

LocalLabelMax == 25
SegmentCap == 8
MainX == 250
LeftX == 50
RightX == 450
StepY == 120
FanY == 240

sStart == <<"s", "t", "a", "r", "t">>
sEnd == <<"e", "n", "d">>
sStartLabel == <<"S", "t", "a", "r", "t">>
sEndLabel == <<"E", "n", "d">>
sProcessLabel == <<"P", "r", "o", "c", "e", "s", "s">>
sContinue == <<"C", "o", "n", "t", "i", "n", "u", "e">>
sHandle == <<"H", "a", "n", "d", "l", "e">>
sNext == <<"N", "e", "x", "t">>
sYes == <<"Y", "e", "s">>
sNo == <<"N", "o">>

MkNode(id, type, x, y, label) ==
  [t |-> "object", id |-> Str(id), type |-> Str(type),
   position |-> [t |-> "object", x |-> Num(x), y |-> Num(y)],
   data |-> [t |-> "object", label |-> Str(label)]]

MkEdge(id, source, target) ==
  [t |-> "object", id |-> Str(id), source |-> Str(source), target |-> Str(target),
   animated |-> Bool(TRUE)]

MkLabelledEdge(id, source, target, label) ==
  [t |-> "object", id |-> Str(id), source |-> Str(source), target |-> Str(target),
   label |-> Str(label), animated |-> Bool(TRUE)]

\* `e-${a}-${b}`
EdgeIdOf(a, b) == <<"e", "-">> \o a \o <<"-">> \o b

StepId(i) == <<"s", "t", "e", "p", "-">> \o NatToString(i)
MergeId(i) == <<"m", "e", "r", "g", "e", "-">> \o NatToString(i)

Min(a, b) == IF a < b THEN a ELSE b

\* parts[j] of the code (0-based), undefined past the end
PartAt(parts, j) == IF j < Len(parts) THEN Str(parts[j + 1]) ELSE Undefined

\* DecisionStep as it would be if the merge node took the text of the decision
\* segment itself
DecisionStepOwnText(parts, i, currentY, lastNodeId) ==
  LET nodeId == StepId(i)
      yesId == nodeId \o <<"-", "y", "e", "s">>
      noId == nodeId \o <<"-", "n", "o">>
      mergeId == MergeId(i)
      isLast == (i = Len(parts) - 2)
  IN [nodes |-> << MkNode(nodeId, sDecision, MainX, currentY,
                          Slice0(StripParens(parts[i + 1]), LocalLabelMax)),
                   MkNode(yesId, sProcess, LeftX, currentY + StepY, sContinue),
                   MkNode(noId, sProcess, RightX, currentY + StepY, sHandle),
                   MkNode(mergeId, IF isLast THEN sStartEnd ELSE sProcess,
                          MainX, currentY + FanY,
                          IF isLast THEN sEndLabel ELSE Slice0(parts[i + 1], LocalLabelMax)) >>,
      edges |-> << MkEdge(EdgeIdOf(lastNodeId, nodeId), lastNodeId, nodeId),
                   MkLabelledEdge(EdgeIdOf(nodeId, yesId), nodeId, yesId, sYes),
                   MkLabelledEdge(EdgeIdOf(nodeId, noId), nodeId, noId, sNo),
                   MkEdge(EdgeIdOf(yesId, mergeId), yesId, mergeId),
                   MkEdge(EdgeIdOf(noId, mergeId), noId, mergeId) >>,
      currentY |-> currentY + FanY,
      lastNodeId |-> mergeId]

\* the decision arm of the loop body: four nodes and five edges
DecisionStep(parts, i, currentY, lastNodeId) ==
  LET part == parts[i + 1]
      nodeId == StepId(i)
      yesId == nodeId \o <<"-", "y", "e", "s">>
      noId == nodeId \o <<"-", "n", "o">>
      mergeId == MergeId(i)
      isLast == (i = Len(parts) - 2)
      next == PartAt(parts, i + 1)
      nextLabel == IF next.t = "string" /\ Truthy(Str(Slice0(next.s, LocalLabelMax)))
                     THEN Slice0(next.s, LocalLabelMax) ELSE sNext
  IN [nodes |-> << MkNode(nodeId, sDecision, MainX, currentY,
                          Slice0(StripParens(part), LocalLabelMax)),
                   MkNode(yesId, sProcess, LeftX, currentY + StepY, sContinue),
                   MkNode(noId, sProcess, RightX, currentY + StepY, sHandle),
                   MkNode(mergeId, IF isLast THEN sStartEnd ELSE sProcess,
                          MainX, currentY + FanY,
                          IF isLast THEN sEndLabel ELSE nextLabel) >>,
      edges |-> << MkEdge(EdgeIdOf(lastNodeId, nodeId), lastNodeId, nodeId),
                   MkLabelledEdge(EdgeIdOf(nodeId, yesId), nodeId, yesId, sYes),
                   MkLabelledEdge(EdgeIdOf(nodeId, noId), nodeId, noId, sNo),
                   MkEdge(EdgeIdOf(yesId, mergeId), yesId, mergeId),
                   MkEdge(EdgeIdOf(noId, mergeId), noId, mergeId) >>,
      currentY |-> currentY + FanY,
      lastNodeId |-> mergeId]

\* the other arm of the loop body: one node and one edge
PlainStep(parts, i, currentY, lastNodeId) ==
  LET part == parts[i + 1]
      nodeId == StepId(i)
      isEnd == (i = Len(parts) - 1)
  IN [nodes |-> << MkNode(nodeId, IF isEnd THEN sStartEnd ELSE sProcess, MainX, currentY,
                          Slice0(StripParens(part), LocalLabelMax)) >>,
      edges |-> << MkEdge(EdgeIdOf(lastNodeId, nodeId), lastNodeId, nodeId) >>,
      currentY |-> currentY + StepY,
      lastNodeId |-> nodeId]

\* for (let i = 1; i < Math.min(parts.length, 8); i++) { ... }: the decision arm
\* increments i once more
RECURSIVE LocalLoop(_, _, _, _, _, _)
LocalLoop(parts, i, nodes, edges, currentY, lastNodeId) ==
  IF ~(i < Min(Len(parts), SegmentCap)) THEN [nodes |-> nodes, edges |-> edges]
  ELSE LET dec == isDecision(parts[i + 1]) /\ i < Len(parts) - 1
           st == IF dec THEN DecisionStep(parts, i, currentY, lastNodeId)
                 ELSE PlainStep(parts, i, currentY, lastNodeId)
       IN LocalLoop(parts, IF dec THEN i + 2 ELSE i + 1,
                    nodes \o st.nodes, edges \o st.edges, st.currentY, st.lastNodeId)

\* the `parts.length >= 3` branch
ChainFlow(parts) ==
  LocalLoop(parts, 1,
            << MkNode(sStart, sStartEnd, MainX, 0,
                      Slice0(StripParens(parts[1]), LocalLabelMax)) >>,
            <<>>, StepY, sStart)

\* SkeletonFlow as it would be if the prompt were trimmed before it is sliced
SkeletonFlowTrimmed(prompt) ==
  [nodes |-> << MkNode(sStart, sStartEnd, MainX, 0, sStartLabel),
                MkNode(sProcess, sProcess, MainX, StepY,
                       IF Slice0(Trim(prompt), LocalLabelMax) # <<>>
                         THEN Slice0(Trim(prompt), LocalLabelMax) ELSE sProcessLabel),
                MkNode(sEnd, sStartEnd, MainX, FanY, sEndLabel) >>,
   edges |-> << MkEdge(<<"e", "1">>, sStart, sProcess),
                MkEdge(<<"e", "2">>, sProcess, sEnd) >>]

\* the default simple flow
SkeletonFlow(prompt) ==
  [nodes |-> << MkNode(sStart, sStartEnd, MainX, 0, sStartLabel),
                MkNode(sProcess, sProcess, MainX, StepY,
                       IF Slice0(prompt, LocalLabelMax) # <<>>
                         THEN Slice0(prompt, LocalLabelMax) ELSE sProcessLabel),
                MkNode(sEnd, sStartEnd, MainX, FanY, sEndLabel) >>,
   edges |-> << MkEdge(<<"e", "1">>, sStart, sProcess),
                MkEdge(<<"e", "2">>, sProcess, sEnd) >>]

MinChainParts == 3

\* generateLocalFlowchart as it would be with the chain built from two segments on
generateLocalFlowchartFromTwo(prompt, type) ==
  LET parts == Parts(prompt)
      g == IF Len(parts) >= MinChainParts - 1 THEN ChainFlow(parts) ELSE SkeletonFlow(prompt)
  IN [t |-> "object", nodes |-> Arr(g.nodes), edges |-> Arr(g.edges)]

\* generateLocalFlowchart as it would be if the diagram type chose the branch
generateLocalFlowchartByType(prompt, type) ==
  LET parts == Parts(prompt)
      g == IF Len(parts) >= MinChainParts /\ type = Str(sProcess)
             THEN ChainFlow(parts) ELSE SkeletonFlow(prompt)
  IN [t |-> "object", nodes |-> Arr(g.nodes), edges |-> Arr(g.edges)]

generateLocalFlowchart(prompt, type) ==
  LET parts == Parts(prompt)
      g == IF Len(parts) >= MinChainParts THEN ChainFlow(parts) ELSE SkeletonFlow(prompt)
  IN [t |-> "object", nodes |-> Arr(g.nodes), edges |-> Arr(g.edges)]

\* ------------------------------------------------------------------------
\* extractJSON
\*
\* A provider's text is a sequence of tokens, each a fixed piece of text:
\*   "{" "}" ","      the JSON punctuation the code and the parser look at
\*   "fence"          the fence marker (three backticks), "json" the tag that may
\*                    follow it
\*   " " "\n"         white space
\*   "p"              a character of prose
\*   "1" "null"       a JSON number and the JSON null
\*   "q"              the JSON string "nodes" (with its quotes)
\*   "K"              an object member `"k":1`, "k" the key `"k":` of a member
\*                    whose value follows
\*   N.. and E..      an object member `"nodes":<value>` or `"edges":<value>`,
\*                    the value being the serialization of NodesValueOf or
\*                    EdgesValueOf of the token; the braces inside such a value
\*                    are balanced and none of its strings holds a brace or the
\*                    text "nodes"
\* ------------------------------------------------------------------------

sA == <<"a">>
sB == <<"b">>
sC == <<"c">>
sX == <<"x">>

RawNode(id, type, position, data) ==
  [t |-> "object", id |-> id, type |-> type, position |-> position, data |-> data]
RawPos(x, y) == [t |-> "object", x |-> x, y |-> y]
RawData(label) == [t |-> "object", label |-> label]
RawEdge(id, source, target, label) ==
  [t |-> "object", id |-> id, source |-> source, target |-> target, label |-> label]

GoodNodeA == RawNode(Str(sA), Str(sStartEnd), RawPos(Num(250), Num(0)), RawData(Str(sStartLabel)))
GoodNodeB == RawNode(Str(sB), Str(sStartEnd), RawPos(Num(250), Num(120)), RawData(Str(sEndLabel)))
UnlabelledNodeB == RawNode(Str(sB), Str(sProcess), RawPos(Num(250), Num(120)), RawData(Str(<<>>)))

NodesValueOf(tok) ==
  CASE tok = "Nab" -> Arr(<<GoodNodeA, GoodNodeB>>)
    [] tok = "Na" -> Arr(<<GoodNodeA, UnlabelledNodeB>>)
    [] tok = "Nnone" -> Arr(<<UnlabelledNodeB>>)
    [] tok = "Nempty" -> Arr(<<>>)
    [] tok = "Nnull" -> Null
    [] tok = "Nstr" -> Str(sX)

EdgesValueOf(tok) ==
  CASE tok = "Eab" -> Arr(<<RawEdge(Undefined, Str(sA), Str(sB), Undefined)>>)
    [] tok = "Edangling" -> Arr(<<RawEdge(Undefined, Str(sA), Str(sC), Undefined),
                                  RawEdge(Undefined, Str(sC), Str(sB), Undefined)>>)
    [] tok = "Emix" -> Arr(<<RawEdge(Undefined, Str(sA), Str(sC), Undefined),
                             RawEdge(Str(<<"e">>), Str(sA), Str(sB), Str(sYes)),
                             RawEdge(Undefined, Str(sB), Str(sA), Undefined)>>)
    [] tok = "Eempty" -> Arr(<<>>)
    [] tok = "Enull" -> Null

NodesTokens == {"Nab", "Na", "Nnone", "Nempty", "Nnull", "Nstr"}
EdgesTokens == {"Eab", "Edangling", "Emix", "Eempty", "Enull"}

\* the tokens whose text contains "nodes" in double quotes
HasNodesText(tok) == tok \in NodesTokens \cup {"q"}

RECURSIVE SkipWs(_, _)
SkipWs(toks, i) ==
  IF i <= Len(toks) /\ toks[i] \in WhiteSpace THEN SkipWs(toks, i + 1) ELSE i

ParseFail == [ok |-> FALSE]
Parsed(next, val) == [ok |-> TRUE, next |-> next, val |-> val]
NoHit == [hit |-> FALSE]

\* JSON.parse, by recursive descent: ParseValue and ParseMembers return the
\* decoded value and the index after it.  Of an object's members the decoded
\* value keeps nodes and edges, the two the code reads.
RECURSIVE ParseValueAt(_, _)
RECURSIVE ParseMemberAt(_, _, _)

\* a value, white space skipped first
ParseValue(toks, i) == ParseValueAt(toks, SkipWs(toks, i))

\* a member of an object whose earlier members gave obj, white space skipped first
ParseMembers(toks, i, obj) == ParseMemberAt(toks, SkipWs(toks, i), obj)

\* after the opening brace, at position j
ParseObjectAt(toks, j) ==
  IF j <= Len(toks) /\ toks[j] = "}" THEN Parsed(j + 1, [t |-> "object"])
  ELSE ParseMemberAt(toks, j, [t |-> "object"])

ParseValueAt(toks, i) ==
  IF i > Len(toks) THEN ParseFail
  ELSE CASE toks[i] = "1" -> Parsed(i + 1, Num(1))
         [] toks[i] = "null" -> Parsed(i + 1, Null)
         [] toks[i] = "q" -> Parsed(i + 1, Str(<<"n", "o", "d", "e", "s">>))
         [] toks[i] = "{" -> ParseObjectAt(toks, SkipWs(toks, i + 1))
         [] OTHER -> ParseFail

\* after a member, at position j: the closing brace, or a comma and a member
AfterMemberAt(toks, j, obj) ==
  IF j > Len(toks) THEN ParseFail
  ELSE IF toks[j] = "}" THEN Parsed(j + 1, obj)
  ELSE IF toks[j] = "," THEN ParseMemberAt(toks, SkipWs(toks, j + 1), obj)
  ELSE ParseFail

AfterMember(toks, next, obj) == AfterMemberAt(toks, SkipWs(toks, next), obj)

\* after the value v of a member with another key
AfterOtherValue(toks, v, obj) == IF v.ok THEN AfterMember(toks, v.next, obj) ELSE ParseFail

ParseMemberAt(toks, i, obj) ==
  IF i > Len(toks) THEN ParseFail
  ELSE CASE toks[i] \in NodesTokens ->
              AfterMember(toks, i + 1, ("nodes" :> NodesValueOf(toks[i])) @@ obj)
         [] toks[i] \in EdgesTokens ->
              AfterMember(toks, i + 1, ("edges" :> EdgesValueOf(toks[i])) @@ obj)
         [] toks[i] = "K" -> AfterMember(toks, i + 1, obj)
         [] toks[i] = "k" -> AfterOtherValue(toks, ParseValueAt(toks, SkipWs(toks, i + 1)), obj)
         [] OTHER -> ParseFail

\* the whole text is the one value v
WholeText(toks, v) == IF v.ok /\ SkipWs(toks, v.next) > Len(toks) THEN v ELSE ParseFail

\* JSON.parse(text)
JSONParse(toks) == WholeText(toks, ParseValue(toks, 1))

\* `if (parsed.nodes && parsed.edges) return parsed` inside try/catch: a parse
\* error is caught, and so is reading a field of null
HitOf(v) ==
  IF v.ok /\ v.val.t # "null" /\ Truthy(Get(v.val, "nodes")) /\ Truthy(Get(v.val, "edges"))
    THEN [hit |-> TRUE, val |-> v.val]
    ELSE NoHit

\* try { const parsed = JSON.parse(text); if (...) return parsed } catch {}
TryParse(toks) == HitOf(JSONParse(toks))

FenceMarker == "fence"
JsonTag == "json"

FencePositions(toks) == {i \in 1..Len(toks) : toks[i] = FenceMarker}
MinOf(S) == CHOOSE m \in S : \A n \in S : m <= n

\* the capture group between the markers at open and close: past an optional
\* tag and white space
FenceInterior(toks, open, close) ==
  SubSeq(toks,
         Min(SkipWs(toks, IF open + 1 < close /\ toks[open + 1] = JsonTag
                            THEN open + 2 ELSE open + 1),
             close),
         close - 1)

FenceBetween(toks, fs, open) ==
  [matched |-> TRUE, interior |-> FenceInterior(toks, open, MinOf(fs \ {open}))]

\* raw.match(/```(?:json)?\s*\n?([\s\S]*?)```/) (strategy 2): from the first
\* marker to the next one
FenceMatch(toks) ==
  IF Cardinality(FencePositions(toks)) < 2 THEN [matched |-> FALSE]
  ELSE FenceBetween(toks, FencePositions(toks), MinOf(FencePositions(toks)))

\* strategy 2, given the match
ParseFence(fence) == IF fence.matched THEN TryParse(Trim(fence.interior)) ELSE NoHit

\* raw.match(/(\{[\s\S]*"nodes"[\s\S]*\})/)
BraceMatch(toks) ==
  \E i, j, k \in 1..Len(toks) :
    i < j /\ j < k /\ toks[i] = "{" /\ HasNodesText(toks[j]) /\ toks[k] = "}"

\* raw.slice(start, i + 1), parsed if it includes "nodes"
TryCandidate(candidate) ==
  IF \E j \in 1..Len(candidate) : HasNodesText(candidate[j]) THEN TryParse(candidate)
  ELSE NoHit

\* the depth-tracking scan of strategy 3, from position i with the loop's
\* depth and start
RECURSIVE BraceScan(_, _, _, _)

\* a closing brace at i that brings the depth to 0 gave r
AfterCandidate(toks, i, depth, start, r) ==
  IF r.hit THEN r ELSE BraceScan(toks, i + 1, depth, start)

BraceScan(toks, i, depth, start) ==
  IF i > Len(toks) THEN NoHit
  ELSE IF toks[i] = "{"
    THEN BraceScan(toks, i + 1, depth + 1, IF depth = 0 THEN i ELSE start)
  ELSE IF toks[i] = "}"
    THEN IF depth - 1 = 0 /\ start >= 1
           THEN AfterCandidate(toks, i, depth - 1, start, TryCandidate(SubSeq(toks, start, i)))
           ELSE BraceScan(toks, i + 1, depth - 1, start)
  ELSE BraceScan(toks, i + 1, depth, start)

\* strategy 3
ScanBraces(toks) == IF BraceMatch(toks) THEN BraceScan(toks, 1, 0, 0) ELSE NoHit

\* the first strategy that hits, in order
FirstHit(s1, s2, s3) ==
  IF s1.hit THEN s1.val
  ELSE IF s2.hit THEN s2.val
  ELSE IF s3.hit THEN s3.val
  ELSE Null

\* extractJSON as it would be if the brace scan ran only for a text without
\* fenced block
extractJSONScanUnlessFenced(raw) ==
  IF ~Truthy(raw) \/ raw.t # "string" THEN Null
  ELSE FirstHit(TryParse(Trim(raw.s)), ParseFence(FenceMatch(raw.s)),
                IF FenceMatch(raw.s).matched THEN NoHit ELSE ScanBraces(raw.s))

\* extractJSON(raw): the parsed object, or Null
extractJSON(raw) ==
  IF ~Truthy(raw) \/ raw.t # "string" THEN Null
  ELSE FirstHit(TryParse(Trim(raw.s)), ParseFence(FenceMatch(raw.s)), ScanBraces(raw.s))

\* ------------------------------------------------------------------------
\* The provider adapters callNvidiaNIM and callKimi, and fetchWithTimeout
\* ------------------------------------------------------------------------

\* the producers in the order POST tries them
Order == <<"nim1", "nim2", "kimi", "local">>
Providers == {"nim1", "nim2", "kimi"}

\* the environment variable an adapter reads
KeyOf(p) == IF p = "kimi" THEN "KIMI_API_KEY" ELSE "NVIDIA_NIM_API_KEY"

timeoutMs == 30000

Returned(v) == [kind |-> "return", value |-> v]
Thrown(e) == [kind |-> "throw", error |-> e]

\* data.choices?.[0]?.message?.content
ContentOf(data) ==
  LET choices == Get(data, "choices")
      first == IF choices.t = "array" /\ Len(choices.a) > 0 THEN choices.a[1] ELSE Undefined
  IN Get(Get(first, "message"), "content")

\* Inside the try block, from the decoded envelope to the return: an empty
\* content, an extraction of null and a failed validation return null.  Reading
\* choices of a null envelope throws, and so does content.slice on a content
\* that has no slice method.
ProcessValidated(validated) ==
  IF ~Truthy(validated) THEN Returned(Null) ELSE Returned(validated)

ProcessExtracted(content, extracted) ==
  IF ~Truthy(extracted)
    THEN IF content.t \in {"string", "array"} THEN Returned(Null) ELSE Thrown("TypeError")
    ELSE ProcessValidated(validateFlowchart(extracted))

ProcessContent(content) ==
  IF ~Truthy(content) THEN Returned(Null)
  ELSE ProcessExtracted(content, extractJSON(content))

ProcessEnvelope(data) ==
  IF data.t \in {"null", "undefined"} THEN Thrown("TypeError")
  ELSE ProcessContent(ContentOf(data))

\* AdapterCatch as it would be if the catch block threw the error on
AdapterCatchRethrows(error) == Thrown(error)

\* AdapterCatch as it would be if the catch block threw the abort of a timeout on
AdapterCatchAbortRethrows(error) ==
  IF error = "AbortError" THEN Thrown(error) ELSE Returned(Null)

\* the catch block of an adapter: it logs and returns null
AdapterCatch(error) == Returned(Null)

\* try { ... } catch (error) { ... } around the adapter's body
TryCatch(outcome) == IF outcome.kind = "throw" THEN AdapterCatch(outcome.error) ELSE outcome

\* ------------------------------------------------------------------------
\* The POST handler
\* ------------------------------------------------------------------------

VARIABLES
  env,        \* process.env: the two credentials
  body,       \* the inbound request body: Unparsable, or the decoded object
  pc,         \* where POST is: "start", a producer of Order, "respond", "done"
  flowchart,  \* POST's local flowchart
  usedAI,     \* POST's local usedAI
  response,   \* the response returned, Null before
  call,       \* the adapter call in progress: its await point
  armed,      \* fetchWithTimeout's timer is set and not yet cleared
  elapsed,    \* milliseconds since the request of the call in progress was sent
  inflight,   \* the network requests sent and not yet completed, failed or aborted
  received,   \* the envelope the latest adapter call decoded, Undefined if none
  callLog,    \* per attempt of this request: producer, how it ended, what it returned
  candidate,  \* SanSpec: the value validateFlowchart is given
  sanitized,  \* SanSpec: what validateFlowchart returned for candidate, Undefined before
  resanitized, \* SanSpec: what validateFlowchart returned for sanitized, Undefined before
  localPrompt, \* LocalSpec: the prompt generateLocalFlowchart is given
  localType,   \* LocalSpec: the diagram type it is given
  localGraph,  \* LocalSpec: what it returned, Undefined before
  localCalls,  \* LocalSpec: how many calls were made with this prompt
  rawText,     \* ExtractSpec: the text extractJSON is given
  extractedAlone, \* ExtractSpec: what it returned, Undefined before
  fencedExtracted, \* ExtractSpec: what it returned for the text in a fence
  parked,      \* ConcSpec: the locals of the request whose continuation is not running
  running      \* ConcSpec: which request the other variables of POST belong to

\* the variables of POST and of the adapter call
postVars == <<env, body, pc, flowchart, usedAI, response, call, armed, elapsed, inflight,
              received, callLog>>

\* the variables of the specifications of the pure functions
sanVars == <<candidate, sanitized, resanitized>>
localVars == <<localPrompt, localType, localGraph, localCalls>>
extVars == <<rawText, extractedAlone, fencedExtracted>>
concVars == <<parked, running>>
fnVars == <<sanVars, localVars, extVars, concVars>>

vars == <<postVars, fnVars>>

\* TagOf as it would be if both NVIDIA NIM attempts set the same tag
TagOfOneNimTag(p) ==
  CASE p \in {"nim1", "nim2"} -> "nvidia-nim"
    [] p = "kimi" -> "kimi"
    [] p = "local" -> "local"

TagOf(p) ==
  CASE p = "nim1" -> "nvidia-nim"
    [] p = "nim2" -> "kimi-via-nim"
    [] p = "kimi" -> "kimi"
    [] p = "local" -> "local"

IndexOf(p) == CHOOSE k \in 1..Len(Order) : Order[k] = p

\* AfterAttempt as it would be without the `if (!flowchart)` guards
AfterAttemptUnguarded(p, result) == Order[IndexOf(p) + 1]

\* where POST goes once producer p has given result: `if (!flowchart)` guards
\* every later producer
AfterAttempt(p, result) == IF Truthy(result) THEN "respond" ELSE Order[IndexOf(p) + 1]

ErrorResponse(status, message) ==
  [status |-> status, body |-> [t |-> "object", error |-> message]]

SuccessResponse(fc, prompt, diagramType, tag) ==
  [status |-> 200,
   body |-> [t |-> "object", success |-> Bool(TRUE), nodes |-> Get(fc, "nodes"),
             edges |-> Get(fc, "edges"), prompt |-> prompt, diagramType |-> diagramType,
             usedAI |-> tag]]

\* POST's catch block
PostCatch == ErrorResponse(500, "Failed to generate flowchart")

Idle == [stage |-> "idle"]

\* ---- the inputs ----

KeyValue == Str(<<"k", "e", "y">>)
Credentials == {Undefined, KeyValue}

Envelope(content) ==
  [t |-> "object",
   choices |-> Arr(<<[t |-> "object", message |-> [t |-> "object", content |-> content]]>>)]

Object(n, e) == <<"{", n, ",", e, "}">>
Fenced(toks) == <<"fence", "json", "\n">> \o toks \o <<"\n", "fence">>
InProse(toks) == <<"p", " ">> \o toks \o <<" ", "p">>

\* the texts a provider answers with
Texts ==
  {Object("Nab", "Eab"), Object("Nab", "Edangling"), Object("Nab", "Emix"),
   Object("Nab", "Eempty"), Object("Nab", "Enull"), Object("Na", "Eab"),
   Object("Na", "Emix"), Object("Nnone", "Eab"), Object("Nnone", "Edangling"),
   Object("Nempty", "Eempty"), Object("Nnull", "Eab"), Object("Nstr", "Eab"),
   Fenced(Object("Nab", "Eab")), InProse(Object("Na", "Emix")),
   <<"p", "p">>, <<"{", "Nab", "}">>, <<"null">>, <<"1">>,
   <<"}", "{", "Nab", ",", "Eab", "}">>}

\* the envelopes response.json() decodes
Envelopes ==
  {Envelope(Str(txt)) : txt \in Texts}
    \cup {Envelope(Str(<<>>)), Envelope(Undefined), Envelope(Num(1)),
          [t |-> "object"], [t |-> "object", choices |-> Arr(<<>>)], Null}

sABC == <<"a", ",", "b", ",", "c">>

\* the prompts of a request body: absent, empty, not a string, and texts of
\* no segment and of three segments, with and without a decision keyword or
\* parentheses
Prompts ==
  {Undefined, Str(<<>>), Num(7), Str(<<" ">>), Str(sABC),
   Str(<<"a", ",", "b", "?", ",", "c">>), Str(<<"(", ",", "b", ",", "?">>)}

DiagramTypes == {Str(sProcess), Str(<<"r", "o", "a", "d", "m", "a", "p">>)}

Unparsable == [t |-> "unparsable"]

Bodies ==
  {Unparsable} \cup
  {[t |-> "object", prompt |-> p, diagramType |-> d] : p \in Prompts, d \in DiagramTypes}

TickMs == 15000
MaxClock == 45000

Init ==
  /\ env \in [{"NVIDIA_NIM_API_KEY", "KIMI_API_KEY"} -> Credentials]
  /\ body \in Bodies
  /\ pc = "start"
  /\ flowchart = Null
  /\ usedAI = ""
  /\ response = Null
  /\ call = Idle
  /\ armed = FALSE
  /\ elapsed = 0
  /\ inflight = 0
  /\ received = Undefined
  /\ callLog = <<>>
  /\ candidate = Null
  /\ sanitized = Undefined
  /\ resanitized = Undefined
  /\ localPrompt = <<>>
  /\ localType = Undefined
  /\ localGraph = Undefined
  /\ localCalls = 0
  /\ rawText = <<>>
  /\ extractedAlone = Undefined
  /\ fencedExtracted = Undefined
  /\ parked = Null
  /\ running = 1

\* ---- POST, up to the first adapter call ----

\* request.json() throws: POST's catch answers 500
ReceiveUnparsable ==
  /\ pc = "start" /\ body = Unparsable
  /\ response' = PostCatch
  /\ pc' = "done"
  /\ UNCHANGED <<env, body, flowchart, usedAI, call, armed, elapsed, inflight, received, callLog>>
  /\ UNCHANGED fnVars

\* `if (!prompt)`: answered 400
ReceiveNoPrompt ==
  /\ pc = "start" /\ body # Unparsable /\ ~Truthy(body.prompt)
  /\ response' = ErrorResponse(400, "Prompt is required")
  /\ pc' = "done"
  /\ UNCHANGED <<env, body, flowchart, usedAI, call, armed, elapsed, inflight, received, callLog>>
  /\ UNCHANGED fnVars

\* Receive as it would be without the `if (!prompt)` test
ReceiveUnchecked ==
  /\ pc = "start" /\ body # Unparsable
  /\ flowchart' = Null
  /\ usedAI' = ""
  /\ pc' = "nim1"
  /\ UNCHANGED <<env, body, response, call, armed, elapsed, inflight, received, callLog>>
  /\ UNCHANGED fnVars

Receive ==
  /\ pc = "start" /\ body # Unparsable /\ Truthy(body.prompt)
  /\ flowchart' = Null
  /\ usedAI' = ""
  /\ pc' = "nim1"
  /\ UNCHANGED <<env, body, response, call, armed, elapsed, inflight, received, callLog>>
  /\ UNCHANGED fnVars

\* ---- an adapter call ----

\* The adapter call of producer p has settled with outcome, after event ev and,
\* if it decoded one, with the envelope data:
\* POST's await resumes, sets usedAI on a graph and goes on; an exception of
\* the call lands in POST's catch.
Settle(p, ev, outcome, data) ==
  /\ elapsed' = 0
  /\ received' = data
  /\ callLog' = [callLog EXCEPT ![Len(callLog)] =
                   [producer |-> p, event |-> ev,
                    result |-> IF outcome.kind = "throw" THEN "throw"
                               ELSE IF Truthy(outcome.value) THEN "graph" ELSE "none"]]
  /\ call' = Idle
  /\ armed' = FALSE
  /\ IF outcome.kind = "throw"
       THEN /\ response' = PostCatch
            /\ pc' = "done"
            /\ UNCHANGED <<flowchart, usedAI>>
       ELSE /\ flowchart' = outcome.value
            /\ usedAI' = IF Truthy(outcome.value) THEN TagOf(p) ELSE usedAI
            /\ pc' = AfterAttempt(p, outcome.value)
            /\ UNCHANGED response

\* the credential is absent: the adapter returns null before any request
SkipCall(p) ==
  /\ pc = p /\ call = Idle
  /\ ~Truthy(env[KeyOf(p)])
  /\ flowchart' = Null
  /\ usedAI' = usedAI
  /\ pc' = AfterAttempt(p, Null)
  /\ callLog' = Append(callLog, [producer |-> p, event |-> "nokey", result |-> "none"])
  /\ received' = Undefined
  /\ UNCHANGED <<env, body, response, call, armed, elapsed, inflight>>
  /\ UNCHANGED fnVars

\* SendRequest as it would be without the `if (!apiKey)` test before it
SendRequestUnguarded(p) ==
  /\ pc = p /\ call = Idle
  /\ call' = [stage |-> "fetch"]
  /\ armed' = TRUE
  /\ elapsed' = 0
  /\ inflight' = inflight + 1
  /\ received' = Undefined
  /\ callLog' = Append(callLog, [producer |-> p, event |-> "pending", result |-> "pending"])
  /\ UNCHANGED <<env, body, pc, flowchart, usedAI, response>>
  /\ UNCHANGED fnVars

\* fetchWithTimeout sets the timer and sends the request
SendRequest(p) ==
  /\ pc = p /\ call = Idle
  /\ Truthy(env[KeyOf(p)])
  /\ call' = [stage |-> "fetch"]
  /\ armed' = TRUE
  /\ elapsed' = 0
  /\ inflight' = inflight + 1
  /\ received' = Undefined
  /\ callLog' = Append(callLog, [producer |-> p, event |-> "pending", result |-> "pending"])
  /\ UNCHANGED <<env, body, pc, flowchart, usedAI, response>>
  /\ UNCHANGED fnVars

\* Time passes while a call awaits.  A set timer fires at timeoutMs, so time
\* does not pass that point with the timer set.
Tick ==
  /\ call.stage # "idle"
  /\ elapsed < (IF armed THEN timeoutMs ELSE MaxClock)
  /\ elapsed' = IF armed THEN Min(elapsed + TickMs, timeoutMs) ELSE elapsed + TickMs
  /\ UNCHANGED <<env, body, pc, flowchart, usedAI, response, call, armed, inflight,
                 received, callLog>>
  /\ UNCHANGED fnVars

\* TimerFires as it would be if the timer rejected the call and left the fetch
\* running (no signal passed to fetch)
TimerFiresNoAbort(p) ==
  /\ pc = p /\ call.stage = "fetch" /\ armed /\ elapsed >= timeoutMs
  /\ inflight' = inflight
  /\ Settle(p, "timeout", TryCatch(Thrown("AbortError")), Undefined)
  /\ UNCHANGED <<env, body>>
  /\ UNCHANGED fnVars

\* the timer fires: controller.abort() rejects the fetch with an AbortError
TimerFires(p) ==
  /\ pc = p /\ call.stage = "fetch" /\ armed /\ elapsed >= timeoutMs
  /\ inflight' = inflight - 1
  /\ Settle(p, "timeout", TryCatch(Thrown("AbortError")), Undefined)
  /\ UNCHANGED <<env, body>>
  /\ UNCHANGED fnVars

\* the fetch rejects: no connection, DNS failure, reset
NetworkError(p) ==
  /\ pc = p /\ call.stage = "fetch"
  /\ inflight' = inflight - 1
  /\ Settle(p, "network", TryCatch(Thrown("TypeError")), Undefined)
  /\ UNCHANGED <<env, body>>
  /\ UNCHANGED fnVars

\* The response head arrives: fetch resolves and fetchWithTimeout's finally
\* clears the timer.  The adapter then awaits the body: response.text() of a
\* response that is not ok, response.json() of one that is.
HeadArrives(p, ok) ==
  /\ pc = p /\ call.stage = "fetch"
  /\ armed' = FALSE
  /\ call' = [stage |-> IF ok THEN "json" ELSE "text"]
  /\ UNCHANGED <<env, body, pc, flowchart, usedAI, response, elapsed, inflight,
                 received, callLog>>
  /\ UNCHANGED fnVars

\* response.text() of a response that is not ok resolves: the adapter returns null
ErrorTextArrives(p) ==
  /\ pc = p /\ call.stage = "text"
  /\ inflight' = inflight - 1
  /\ Settle(p, "status", TryCatch(Returned(Null)), Undefined)
  /\ UNCHANGED <<env, body>>
  /\ UNCHANGED fnVars

\* reading the body rejects: the connection drops, or the body is not JSON
BodyFails(p) ==
  /\ pc = p /\ call.stage \in {"text", "json"}
  /\ inflight' = inflight - 1
  /\ Settle(p, IF call.stage = "json" THEN "decode" ELSE "status",
            TryCatch(Thrown("SyntaxError")), Undefined)
  /\ UNCHANGED <<env, body>>
  /\ UNCHANGED fnVars

\* how an attempt that decoded the envelope data ended
EventOfExtracted(extracted) ==
  IF ~Truthy(extracted) THEN "extract"
  ELSE IF ~Truthy(validateFlowchart(extracted)) THEN "invalid"
  ELSE "success"

EventOfContent(content) ==
  IF ~Truthy(content) THEN "empty" ELSE EventOfExtracted(extractJSON(content))

EventOf(data) ==
  IF data.t \in {"null", "undefined"} THEN "decode" ELSE EventOfContent(ContentOf(data))

\* what each envelope of the inputs leads to, computed once
Processed == [data \in Envelopes |->
                [event |-> EventOf(data), outcome |-> TryCatch(ProcessEnvelope(data))]]

\* response.json() resolves with the envelope data; the rest of the try block
\* runs without another await
BodyArrives(p, data) ==
  /\ pc = p /\ call.stage = "json"
  /\ inflight' = inflight - 1
  /\ Settle(p, Processed[data].event, Processed[data].outcome, data)
  /\ UNCHANGED <<env, body>>
  /\ UNCHANGED fnVars

\* ---- POST, after the adapters ----

\* what generateLocalFlowchart returns for each body with a text prompt,
\* computed once
LocalGraphs == [b \in {x \in Bodies \ {Unparsable} : x.prompt.t = "string"} |->
                  generateLocalFlowchart(b.prompt.s, b.diagramType)]

\* `if (!flowchart)`: the local generator; prompt.split of a prompt that is no
\* string throws into POST's catch
Local ==
  /\ pc = "local"
  /\ IF body.prompt.t = "string"
       THEN /\ flowchart' = LocalGraphs[body]
            /\ usedAI' = TagOf("local")
            /\ pc' = "respond"
            /\ callLog' = Append(callLog,
                                 [producer |-> "local", event |-> "success", result |-> "graph"])
            /\ UNCHANGED response
       ELSE /\ response' = PostCatch
            /\ pc' = "done"
            /\ callLog' = Append(callLog,
                                 [producer |-> "local", event |-> "throw", result |-> "throw"])
            /\ UNCHANGED <<flowchart, usedAI>>
  /\ received' = Undefined
  /\ UNCHANGED <<env, body, call, armed, elapsed, inflight>>
  /\ UNCHANGED fnVars

Respond ==
  /\ pc = "respond"
  /\ response' = SuccessResponse(flowchart, body.prompt, body.diagramType, usedAI)
  /\ pc' = "done"
  /\ UNCHANGED <<env, body, flowchart, usedAI, call, armed, elapsed, inflight, received, callLog>>
  /\ UNCHANGED fnVars

Next ==
  \/ ReceiveUnparsable
  \/ ReceiveNoPrompt
  \/ Receive
  \/ \E p \in Providers : SkipCall(p)
  \/ \E p \in Providers : SendRequest(p)
  \/ Tick
  \/ \E p \in Providers : TimerFires(p)
  \/ \E p \in Providers : NetworkError(p)
  \/ \E p \in Providers, ok \in BOOLEAN : HeadArrives(p, ok)
  \/ \E p \in Providers : ErrorTextArrives(p)
  \/ \E p \in Providers : BodyFails(p)
  \/ \E p \in Providers, data \in Envelopes : BodyArrives(p, data)
  \/ Local
  \/ Respond

Spec == Init /\ [][Next]_vars

\* ------------------------------------------------------------------------
\* SanSpec: validateFlowchart applied to a candidate, and again to its result
\* ------------------------------------------------------------------------

MaxNodes == 2
MaxEdges == 2

sBogus == <<"b", "o", "g", "u", "s">>
LongLabel == [i \in 1..(LabelMax + 1) |-> "x"]

\* the entries of a candidate's nodes array: well-formed nodes, a node without
\* label, null, and nodes whose id, type, position and label are of other types
NodeEntries ==
  {GoodNodeA, GoodNodeB, UnlabelledNodeB, Null,
   RawNode(Num(1), Str(sBogus), RawPos(Str(sX), Undefined), RawData(Str(LongLabel))),
   RawNode(Arr(<<>>), Undefined, Undefined, RawData(Str(sX))),
   RawNode(Str(sA), Str(sDecision), RawPos(Num(50), Num(240)), RawData(Arr(<<>>)))}

\* the entries of a candidate's edges array
EdgeEntries ==
  {RawEdge(Undefined, Str(sA), Str(sB), Undefined),
   RawEdge(Undefined, Str(sA), Str(sA), Undefined),
   RawEdge(Str(<<"e">>), Str(sB), Str(sA), Str(sYes)),
   RawEdge(Num(0), Num(1), Str(sA), Str(<<>>)),
   RawEdge(Arr(<<>>), Arr(<<>>), Str(sA), Arr(<<>>)),
   Null}

SeqsUpTo(S, n) == UNION {[1..k -> S] : k \in 0..n}

\* a candidate with arrays of nodes and edges
Candidate(ns, es) == [t |-> "object", nodes |-> Arr(ns), edges |-> Arr(es)]

\* candidates that are no object with two arrays
Malformed ==
  {Null, Undefined, Str(sX), [t |-> "object"],
   [t |-> "object", nodes |-> Arr(<<GoodNodeA>>)],
   [t |-> "object", nodes |-> Str(sX), edges |-> Arr(<<>>)],
   [t |-> "object", nodes |-> Arr(<<GoodNodeA>>), edges |-> Null]}

PostIdle ==
  /\ env = [k \in {"NVIDIA_NIM_API_KEY", "KIMI_API_KEY"} |-> Undefined]
  /\ body = Unparsable
  /\ pc = "start"
  /\ flowchart = Null
  /\ usedAI = ""
  /\ response = Null
  /\ call = Idle
  /\ armed = FALSE
  /\ elapsed = 0
  /\ inflight = 0
  /\ received = Undefined
  /\ callLog = <<>>

SanInit ==
  /\ PostIdle
  /\ \/ candidate \in Malformed
     \/ \E ns \in SeqsUpTo(NodeEntries, MaxNodes), es \in SeqsUpTo(EdgeEntries, MaxEdges) :
          candidate = Candidate(ns, es)
  /\ sanitized = Undefined
  /\ resanitized = Undefined
  /\ localPrompt = <<>>
  /\ localType = Undefined
  /\ localGraph = Undefined
  /\ localCalls = 0
  /\ rawText = <<>>
  /\ extractedAlone = Undefined
  /\ fencedExtracted = Undefined
  /\ parked = Null
  /\ running = 1

Sanitize ==
  /\ sanitized = Undefined
  /\ sanitized' = validateFlowchart(candidate)
  /\ UNCHANGED <<postVars, candidate, resanitized, localVars, extVars, concVars>>

Resanitize ==
  /\ sanitized # Undefined /\ resanitized = Undefined
  /\ resanitized' = validateFlowchart(sanitized)
  /\ UNCHANGED <<postVars, candidate, sanitized, localVars, extVars, concVars>>

SanNext == Sanitize \/ Resanitize

SanSpec == SanInit /\ [][SanNext]_vars

\* ------------------------------------------------------------------------
\* LocalSpec: generateLocalFlowchart applied to a prompt
\* ------------------------------------------------------------------------

MaxSegments == 9
MaxCalls == 2

\* the texts of the segments of the prompts built: a plain one and one with a
\* decision keyword
SegTexts == {<<"a">>, <<"b", "?">>}

\* the segments joined by a comma and a space
RECURSIVE JoinSegs(_)
JoinSegs(segs) ==
  IF segs = <<>> THEN <<>>
  ELSE IF Len(segs) = 1 THEN Head(segs)
  ELSE Head(segs) \o <<",", " ">> \o JoinSegs(Tail(segs))

OrderPrompt ==
  <<"r", "e", "c", "e", "i", "v", "e", " ", "o", "r", "d", "e", "r", ",", " ", "c", "h",
      "e", "c", "k", " ", "s", "t", "o", "c", "k", ",", " ", "s", "h", "i", "p", " ",
      "o", "r", "d", "e", "r">>

LongPrompt ==
  <<"l", "a", "u", "n", "c", "h", " ", "t", "h", "e", " ", "n", "e", "w", " ", "p", "r",
      "o", "d", "u", "c", "t", " ", "l", "i", "n", "e", " ", "i", "n", " ", "s", "p",
      "r", "i", "n", "g">>

LongSegmentsPrompt ==
  <<"p", "l", "a", "n", ",", " ", "r", "e", "a", "d", "y", "?", ",", " ", "r", "e",
      "v", "i", "e", "w", " ", "t", "h", "e", " ", "c", "o", "l", "l", "e", "c", "t",
      "e", "d", " ", "r", "e", "q", "u", "i", "r", "e", "m", "e", "n", "t", "s", ",",
      " ", "g", "o">>

\* the prompts: the texts of up to MaxSegments segments, plain and decision,
\* and prompts written out: texts without segment, the examples of the
\* documentation, arrows, empty segments, parentheses, every decision keyword,
\* segments longer than a label, and ten segments with texts of their own
LocalPrompts ==
  {JoinSegs(segs) : segs \in SeqsUpTo(SegTexts, MaxSegments)} \cup
  {<<>>, <<" ">>, <<",">>, <<"c", "h", "e", "c", "k", " ", "a", ",", "b">>,
   <<"(", ",", "b", ",", "?">>,
   OrderPrompt, LongPrompt, LongSegmentsPrompt,
   \* "visit site, verify email, create profile"
   <<"v", "i", "s", "i", "t", " ", "s", "i", "t", "e", ",", " ", "v", "e", "r", "i", "f",
     "y", " ", "e", "m", "a", "i", "l", ",", " ", "c", "r", "e", "a", "t", "e", " ",
     "p", "r", "o", "f", "i", "l", "e">>,
   \* "launch product"
   <<"l", "a", "u", "n", "c", "h", " ", "p", "r", "o", "d", "u", "c", "t">>,
   \* "a -> if x", a right arrow, "(c) ->d"
   <<"a", " ", "-", ">", " ", "i", "f", " ", "x", RightArrow, "(", "c", ")", " ", "-",
     ">", "d">>,
   \* "a, b, c, d, e, f, g, h?, i, j"
   <<"a", ",", " ", "b", ",", " ", "c", ",", " ", "d", ",", " ", "e", ",", " ", "f", ",",
     " ", "g", ",", " ", "h", "?", ",", " ", "i", ",", " ", "j">>,
   \* " a,, validate ," a line feed ",(),c "
   <<" ", "a", ",", ",", " ", "v", "a", "l", "i", "d", "a", "t", "e", " ", ",", "\n", ",",
     "(", ")", ",", "c", " ">>}

LocalInit ==
  /\ PostIdle
  /\ candidate = Null
  /\ sanitized = Undefined
  /\ resanitized = Undefined
  /\ localPrompt \in LocalPrompts
  /\ localType \in DiagramTypes
  /\ localGraph = Undefined
  /\ localCalls = 0
  /\ rawText = <<>>
  /\ extractedAlone = Undefined
  /\ fencedExtracted = Undefined
  /\ parked = Null
  /\ running = 1

Generate ==
  /\ localGraph = Undefined
  /\ localGraph' = generateLocalFlowchart(localPrompt, localType)
  /\ localCalls' = 1
  /\ UNCHANGED <<postVars, sanVars, extVars, concVars, localPrompt, localType>>

\* a later call with the same prompt, with any diagram type
GenerateAgain ==
  /\ localGraph # Undefined
  /\ localCalls < MaxCalls
  /\ \E type \in DiagramTypes :
       /\ localType' = type
       /\ localGraph' = generateLocalFlowchart(localPrompt, type)
  /\ localCalls' = localCalls + 1
  /\ UNCHANGED <<postVars, sanVars, extVars, concVars, localPrompt>>

LocalNext == Generate \/ GenerateAgain

LocalSpec == LocalInit /\ [][LocalNext]_vars

\* ------------------------------------------------------------------------
\* ExtractSpec: extractJSON applied to a text, and to the text in a fence
\* ------------------------------------------------------------------------

MaxPieces == 3

\* the pieces of the texts built: prose, white space, stray braces, the
\* opening of an enclosing object, a fence marker, a fenced block that does
\* not decode, two objects with nodes and edges, an object whose nodes are
\* null, an object without nodes, and a fenced object
Pieces ==
  {<<"p">>, <<"\n">>, <<"{">>, <<"}">>, <<"{", "k">>, <<"fence">>,
   <<"fence", "p", "fence">>,
   Object("Nab", "Eab"), Object("Na", "Emix"), Object("Nnull", "Eab"),
   <<"{", "K", "}">>,
   <<"fence">> \o Object("Na", "Emix") \o <<"fence">>}

RECURSIVE Concat(_)
Concat(pieces) == IF pieces = <<>> THEN <<>> ELSE Head(pieces) \o Concat(Tail(pieces))

\* the text in a triple-backtick fence, with or without the json tag and the
\* line breaks
FencedAs(toks, tag, breaks) ==
  <<"fence">> \o (IF tag THEN <<"json">> ELSE <<>>) \o (IF breaks THEN <<"\n">> ELSE <<>>)
    \o toks \o (IF breaks THEN <<"\n">> ELSE <<>>) \o <<"fence">>

ExtInit ==
  /\ PostIdle
  /\ candidate = Null /\ sanitized = Undefined /\ resanitized = Undefined
  /\ localPrompt = <<>> /\ localType = Undefined /\ localGraph = Undefined
  /\ localCalls = 0
  /\ \E pieces \in SeqsUpTo(Pieces, MaxPieces) : rawText = Concat(pieces)
  /\ extractedAlone = Undefined
  /\ fencedExtracted = Undefined
  /\ parked = Null
  /\ running = 1

Extract ==
  /\ extractedAlone = Undefined
  /\ extractedAlone' = extractJSON(Str(rawText))
  /\ UNCHANGED <<postVars, sanVars, localVars, concVars, rawText, fencedExtracted>>

ExtractFenced ==
  /\ fencedExtracted = Undefined
  /\ \E tag \in BOOLEAN, breaks \in BOOLEAN :
       fencedExtracted' = extractJSON(Str(FencedAs(rawText, tag, breaks)))
  /\ UNCHANGED <<postVars, sanVars, localVars, concVars, rawText, extractedAlone>>

ExtNext == Extract \/ ExtractFenced

ExtractSpec == ExtInit /\ [][ExtNext]_vars

\* ------------------------------------------------------------------------
\* ConcSpec: two requests in one process.  The runtime runs one continuation
\* at a time; the variables of POST hold the locals of the request whose
\* continuation runs, parked those of the other one, and process.env is the
\* one of the process.
\* ------------------------------------------------------------------------

\* the locals of the invocation of POST that is running, and of its adapter
\* call
Own ==
  [body |-> body, pc |-> pc, flowchart |-> flowchart, usedAI |-> usedAI,
   response |-> response, call |-> call, armed |-> armed, elapsed |-> elapsed,
   inflight |-> inflight, received |-> received, callLog |-> callLog]

\* the locals of an invocation of POST that has not begun
Fresh(b) ==
  [body |-> b, pc |-> "start", flowchart |-> Null, usedAI |-> "", response |-> Null,
   call |-> Idle, armed |-> FALSE, elapsed |-> 0, inflight |-> 0, received |-> Undefined,
   callLog |-> <<>>]

\* the body of each of the two requests
ConcBody(r) ==
  IF r = 1 THEN [t |-> "object", prompt |-> Str(sABC), diagramType |-> Str(sProcess)]
  ELSE [t |-> "object", prompt |-> Str(<<"a", ",", "b", "?", ",", "c">>),
        diagramType |-> Str(<<"r", "o", "a", "d", "m", "a", "p">>)]

\* the envelopes the providers answer the two requests with: a graph, and an
\* empty content
ConcEnvelopes == {Envelope(Str(Object("Nab", "Eab"))), Envelope(Str(<<>>))}

\* the credentials of the process: none, or the one of one provider
ConcInit ==
  /\ env \in [{"NVIDIA_NIM_API_KEY", "KIMI_API_KEY"} -> Credentials]
  /\ \E k \in DOMAIN env : env[k] = Undefined
  /\ body = ConcBody(1)
  /\ pc = "start"
  /\ flowchart = Null
  /\ usedAI = ""
  /\ response = Null
  /\ call = Idle
  /\ armed = FALSE
  /\ elapsed = 0
  /\ inflight = 0
  /\ received = Undefined
  /\ callLog = <<>>
  /\ parked = Fresh(ConcBody(2))
  /\ running = 1
  /\ candidate = Null /\ sanitized = Undefined /\ resanitized = Undefined
  /\ localPrompt = <<>> /\ localType = Undefined /\ localGraph = Undefined
  /\ localCalls = 0
  /\ rawText = <<>> /\ extractedAlone = Undefined /\ fencedExtracted = Undefined

\* Switch as it would be if flowchart and usedAI were variables of the module,
\* one for all invocations of POST
SwitchSharedLocals ==
  /\ parked' = Own
  /\ body' = parked.body
  /\ pc' = parked.pc
  /\ response' = parked.response
  /\ call' = parked.call
  /\ armed' = parked.armed
  /\ elapsed' = parked.elapsed
  /\ inflight' = parked.inflight
  /\ received' = parked.received
  /\ callLog' = parked.callLog
  /\ running' = 3 - running
  /\ UNCHANGED <<env, flowchart, usedAI, sanVars, localVars, extVars>>

\* the runtime turns to a continuation of the other request: each invocation
\* of POST has its own body, flowchart, usedAI and adapter call
Switch ==
  /\ parked' = Own
  /\ body' = parked.body
  /\ pc' = parked.pc
  /\ flowchart' = parked.flowchart
  /\ usedAI' = parked.usedAI
  /\ response' = parked.response
  /\ call' = parked.call
  /\ armed' = parked.armed
  /\ elapsed' = parked.elapsed
  /\ inflight' = parked.inflight
  /\ received' = parked.received
  /\ callLog' = parked.callLog
  /\ running' = 3 - running
  /\ UNCHANGED <<env, sanVars, localVars, extVars>>

ConcNext ==
  \/ Receive
  \/ \E p \in Providers : SkipCall(p)
  \/ \E p \in Providers : SendRequest(p)
  \/ Tick
  \/ \E p \in Providers : TimerFires(p)
  \/ \E p \in Providers : NetworkError(p)
  \/ \E p \in Providers, ok \in BOOLEAN : HeadArrives(p, ok)
  \/ \E p \in Providers : ErrorTextArrives(p)
  \/ \E p \in Providers : BodyFails(p)
  \/ \E p \in Providers, data \in ConcEnvelopes : BodyArrives(p, data)
  \/ Local
  \/ Respond
  \/ Switch

ConcSpec == ConcInit /\ [][ConcNext]_vars

\* ------------------------------------------------------------------------
\* FairSpec: the runtime runs every continuation that is ready and fires a set
\* timer; nothing makes a provider answer
\* ------------------------------------------------------------------------

ProgramStep ==
  \/ ReceiveUnparsable
  \/ ReceiveNoPrompt
  \/ Receive
  \/ \E p \in Providers : SkipCall(p)
  \/ \E p \in Providers : SendRequest(p)
  \/ Local
  \/ Respond

TimerStep == (\E p \in Providers : TimerFires(p)) \/ (armed /\ Tick)

FairSpec == Spec /\ WF_vars(ProgramStep) /\ WF_vars(TimerStep)

\* ------------------------------------------------------------------------
\* Properties of POST and the adapters (Spec, FairSpec)
\* ------------------------------------------------------------------------

Done == pc = "done"
Answered(status) == response # Null /\ response.status = status
HasTextPrompt == body # Unparsable /\ body.prompt.t = "string" /\ body.prompt.s # <<>>
LastCall == callLog[Len(callLog)]
EventsOfLog == [k \in 1..Len(callLog) |-> callLog[k].event]
ProviderTags == {"nvidia-nim", "kimi-via-nim", "kimi"}

\* C1: generate never fails.  A request whose prompt is a non-empty text is
\* answered, whatever the three provider attempts do, with the success response:
\* status 200, success true, a nodes array that is not empty and a provenance
\* tag; never with an error response.
C1_NeverFails ==
  (HasTextPrompt /\ response # Null) =>
    /\ response.status = 200
    /\ response.body.success = Bool(TRUE)
    /\ response.body.nodes.t = "array"
    /\ Len(response.body.nodes.a) >= 1
    /\ response.body.edges.t = "array"
    /\ response.body.usedAI \in ProviderTags \cup {"local"}

\* C1 witness: the three provider attempts ended by a network exception, a
\* provider text nothing can be extracted from and a candidate no node of which
\* survives, and the request is answered
C1_Witness ==
  /\ Done /\ HasTextPrompt /\ Answered(200)
  /\ EventsOfLog = <<"network", "extract", "invalid", "success">>

\* C2: the producers are attempted in the order nim1, nim2, kimi, local, each
\* at most once, a producer only after every earlier one has yielded none, and
\* none after a producer has returned a graph.
C2_FixedOrder ==
  /\ Len(callLog) <= Len(Order)
  /\ \A k \in 1..Len(callLog) :
       /\ callLog[k].producer = Order[k]
       /\ k < Len(callLog) => callLog[k].result = "none"

\* C2 witness: the second producer returned a graph after the first yielded
\* none, and the request ended there
C2_Witness ==
  /\ Done /\ Len(callLog) = 2
  /\ callLog[1].result = "none" /\ callLog[1].event = "status"
  /\ callLog[2].result = "graph"

\* C3: the provenance tag names the producer whose graph is returned.  A
\* provider's tag is set only if that provider's attempt of this request
\* returned a graph that extractJSON found and validateFlowchart accepted, and
\* the response carries exactly its nodes and edges; the tag is local exactly
\* when all three provider attempts yielded none, and the response then carries
\* the graph of generateLocalFlowchart.
C3_Provenance ==
  Answered(200) =>
    /\ response.body.usedAI = "nvidia-nim" => LastCall.producer = "nim1"
    /\ response.body.usedAI = "kimi-via-nim" => LastCall.producer = "nim2"
    /\ response.body.usedAI = "kimi" => LastCall.producer = "kimi"
    /\ response.body.usedAI = "local" <=>
         (Len(callLog) = 4 /\ \A k \in 1..3 : callLog[k].result = "none")
    /\ LastCall.result = "graph"
    /\ response.body.usedAI \in ProviderTags =>
         /\ Truthy(extractJSON(ContentOf(received)))
         /\ Truthy(validateFlowchart(extractJSON(ContentOf(received))))
         /\ response.body.nodes = validateFlowchart(extractJSON(ContentOf(received))).nodes
         /\ response.body.edges = validateFlowchart(extractJSON(ContentOf(received))).edges
    /\ response.body.usedAI = "local" =>
         /\ response.body.nodes = generateLocalFlowchart(body.prompt.s, body.diagramType).nodes
         /\ response.body.edges = generateLocalFlowchart(body.prompt.s, body.diagramType).edges

\* C3 witness: the response carries the tag of the second NVIDIA NIM attempt and
\* a graph from which validateFlowchart dropped a node and two edges
C3_Witness ==
  /\ Answered(200) /\ response.body.usedAI = "kimi-via-nim"
  /\ received = Envelope(Str(InProse(Object("Na", "Emix"))))
  /\ Len(response.body.nodes.a) = 1 /\ Len(response.body.edges.a) = 0

NoCredentials == \A k \in DOMAIN env : ~Truthy(env[k])

NodeKinds == {Str(sProcess), Str(sDecision), Str(sStartEnd), Str(sInputOutput)}

\* the Graph invariants of the data model, of a response body
GraphInvariants(b) ==
  /\ b.nodes.t = "array" /\ b.edges.t = "array"
  /\ Len(b.nodes.a) >= 1
  /\ \A i \in 1..Len(b.nodes.a) :
       /\ b.nodes.a[i].id.t = "string" /\ b.nodes.a[i].id.s # <<>>
       /\ \A j \in 1..Len(b.nodes.a) : b.nodes.a[i].id = b.nodes.a[j].id => i = j
       /\ b.nodes.a[i].data.label.t = "string"
       /\ b.nodes.a[i].data.label.s # <<>>
       /\ Len(b.nodes.a[i].data.label.s) <= LabelMax
       /\ b.nodes.a[i].type \in NodeKinds
  /\ \A i \in 1..Len(b.edges.a) :
       /\ \E j \in 1..Len(b.nodes.a) : b.nodes.a[j].id = b.edges.a[i].source
       /\ \E j \in 1..Len(b.nodes.a) : b.nodes.a[j].id = b.edges.a[i].target
       /\ b.edges.a[i].animated = Bool(TRUE)

\* C4 as claimed: with both credentials absent and a non-empty text prompt, the
\* response carries the local tag and a graph that satisfies every Graph
\* invariant
C4_LocalGraphValid ==
  (Done /\ NoCredentials /\ HasTextPrompt) =>
    /\ Answered(200)
    /\ response.body.usedAI = "local"
    /\ GraphInvariants(response.body)

Pending == call.stage # "idle"

\* C5 as claimed: an adapter attempt is never pending past its deadline,
\* whatever the provider does after the request is sent
C5_NoPendingPastDeadline == Pending => elapsed <= timeoutMs

TimedOut(k) == k <= Len(callLog) /\ callLog[k].event = "timeout"

\* the latest attempt timed out and no later producer has been attempted yet
JustTimedOut == callLog # <<>> /\ call = Idle /\ LastCall.event = "timeout"

\* the attempt before the latest one timed out
AttemptFollows == Len(callLog) >= 2 /\ callLog[Len(callLog) - 1].event = "timeout"

\* the step in which the timer of the attempt in progress fires
TimeoutStep ==
  /\ call.stage = "fetch" /\ armed /\ elapsed >= timeoutMs
  /\ callLog'[Len(callLog)].event = "timeout"

FailureEvents == {"network", "timeout", "status", "decode", "empty", "extract", "invalid"}

\* C7: an adapter call never raises past its boundary.  A network exception, a
\* timeout, a non-success status, an envelope that cannot be decoded, an empty
\* content, an extraction of none and a failed validation each make the call
\* return none; no adapter call ends by throwing, so only an unparsable body or
\* the local generator bring POST to its catch block.
C7_AdapterNeverRaises ==
  /\ \A k \in 1..Len(callLog) :
       callLog[k].producer \in Providers =>
         /\ callLog[k].result # "throw"
         /\ callLog[k].event \in FailureEvents => callLog[k].result = "none"
  /\ Answered(500) => (body = Unparsable \/ LastCall.producer = "local")

\* C7 witness: three attempts ended by a timeout, an envelope that is not JSON
\* and an empty content, each yielding none
C7_Witness ==
  /\ Len(callLog) >= 3
  /\ EventsOfLog[1] = "timeout" /\ EventsOfLog[2] = "decode" /\ EventsOfLog[3] = "empty"
  /\ \A k \in 1..3 : callLog[k].result = "none"

\* the string forms of the ids of the raw nodes the node pass keeps
KeptIds(x) ==
  {StringOf(Get(x.nodes.a[i], "id")) : i \in {j \in 1..Len(x.nodes.a) : NodeKept(x.nodes.a[j])}}

\* x is a candidate with arrays of nodes and edges in which there are edges and
\* every edge names an endpoint that is the id of no kept node
AllEdgesDangling(x) ==
  /\ Get(x, "nodes").t = "array" /\ Get(x, "edges").t = "array"
  /\ Len(x.edges.a) >= 1
  /\ \A i \in 1..Len(x.edges.a) :
       \/ StringOf(Get(x.edges.a[i], "source")) \notin KeptIds(x)
       \/ StringOf(Get(x.edges.a[i], "target")) \notin KeptIds(x)

\* the candidate the latest adapter call extracted
Extracted == extractJSON(ContentOf(received))

\* C8 as claimed: an adapter that extracted a candidate in which every edge
\* references an unknown endpoint yields none, and POST goes on to the next
\* producer
C8_DanglingEdgesRejected ==
  (call = Idle /\ received # Undefined /\ AllEdgesDangling(Extracted)) =>
    (LastCall.result = "none" /\ flowchart = Null)

\* C8 as amended: such a candidate is a schema failure only if no node survives
\* the node pass as well.  If a node survives, the adapter returns the surviving
\* nodes with an empty edge sequence and POST goes on to respond with them; if
\* none survives, the adapter yields none and POST goes on to the next producer.
C8_DanglingEdgesDropped ==
  (call = Idle /\ received # Undefined /\ AllEdgesDangling(Extracted)) =>
    IF KeptIds(Extracted) # {}
      THEN /\ LastCall.result = "graph"
           /\ flowchart.t = "object"
           /\ Len(flowchart.nodes.a) >= 1
           /\ flowchart.edges = Arr(<<>>)
           /\ usedAI \in ProviderTags
           /\ pc \in {"respond", "done"}
      ELSE /\ LastCall.result = "none"
           /\ flowchart = Null
           /\ pc = Order[Len(callLog) + 1]

\* C8 witness: the first attempt extracted two nodes and two edges that name a
\* third, and the request is answered with the two nodes and no edge
C8_Witness ==
  /\ Done /\ Answered(200) /\ Len(callLog) = 1
  /\ received = Envelope(Str(Object("Nab", "Edangling")))
  /\ Len(response.body.nodes.a) = 2
  /\ response.body.edges = Arr(<<>>)

\* the attempts of the log whose request is still in flight
PendingAttempts == {k \in 1..Len(callLog) : callLog[k].result = "pending"}

\* C14: within one request at most one provider request is in flight at any
\* time.  A request is in flight exactly while an adapter call awaits it, it is
\* the request of the latest attempt, and every earlier attempt has completed,
\* failed or been cancelled.
C14_OneInFlight ==
  /\ inflight \in {0, 1}
  /\ inflight = 1 <=> call # Idle
  /\ Cardinality(PendingAttempts) = inflight
  /\ PendingAttempts \subseteq {Len(callLog)}

\* C14 witness: the request of the third attempt is in flight, its response
\* head received, after the request of the first timed out and that of the
\* second was answered with a status that is not ok
C14_Witness ==
  /\ Len(callLog) = 3 /\ inflight = 1 /\ call.stage = "json"
  /\ callLog[1].event = "timeout" /\ callLog[2].event = "status"

Absent(key) == ~Truthy(env[key])

\* C15: an adapter whose credential is absent returns none without a request.
\* An attempt of a provider whose credential is absent sends nothing and yields
\* none; with both credentials absent no request is ever in flight and no timer
\* set; with the NVIDIA NIM credential absent the tag is never nvidia-nim or
\* kimi-via-nim.
C15_NoCredentialNoRequest ==
  /\ \A k \in 1..Len(callLog) :
       (callLog[k].producer \in Providers /\ Absent(KeyOf(callLog[k].producer))) =>
         (callLog[k].event = "nokey" /\ callLog[k].result = "none")
  /\ NoCredentials => (inflight = 0 /\ call = Idle /\ ~armed /\ received = Undefined)
  /\ Absent("NVIDIA_NIM_API_KEY") =>
       /\ usedAI \notin {"nvidia-nim", "kimi-via-nim"}
       /\ Answered(200) => response.body.usedAI \notin {"nvidia-nim", "kimi-via-nim"}

\* C15 witness: with the NVIDIA NIM credential absent and the Kimi credential
\* present, the first two attempts sent nothing and the request is answered with
\* the graph of Kimi
C15_Witness ==
  /\ Absent("NVIDIA_NIM_API_KEY") /\ ~Absent("KIMI_API_KEY")
  /\ Answered(200) /\ response.body.usedAI = "kimi"
  /\ Len(callLog) = 3
  /\ callLog[1].event = "nokey" /\ callLog[2].event = "nokey"

\* no producer has been attempted and nothing of a graph is held
NothingAttempted ==
  /\ callLog = <<>> /\ inflight = 0 /\ call = Idle /\ ~armed
  /\ flowchart = Null /\ usedAI = ""

ReturnedIds(g) == {g.nodes.a[i].id : i \in 1..Len(g.nodes.a)}

\* C9: referential integrity of sanitized graphs.  In every graph that
\* validateFlowchart returns, the source and the target of each edge are ids of
\* nodes of the returned node sequence; so an edge of the candidate that names a
\* node the node pass dropped is not among the returned edges.
C9_ReferentialIntegrity ==
  sanitized.t = "object" =>
    \A i \in 1..Len(sanitized.edges.a) :
      /\ sanitized.edges.a[i].source \in ReturnedIds(sanitized)
      /\ sanitized.edges.a[i].target \in ReturnedIds(sanitized)

\* C9 witness: a graph is returned with an edge in it, for a candidate one of
\* whose edges names a node that the node pass dropped for its missing label
C9_Witness ==
  /\ sanitized.t = "object"
  /\ Len(sanitized.edges.a) = 1
  /\ Len(sanitized.nodes.a) = 1
  /\ candidate.nodes.a = <<GoodNodeA, UnlabelledNodeB>>
  /\ candidate.edges.a = <<RawEdge(Undefined, Str(sA), Str(sB), Undefined),
                           RawEdge(Undefined, Str(sA), Str(sA), Undefined)>>

\* C10 as claimed: sanitizing a graph that validateFlowchart returned returns
\* that same graph
C10_Idempotent ==
  (sanitized.t = "object" /\ resanitized # Undefined) => resanitized = sanitized

\* C11 as claimed: the ids of the nodes of a graph validateFlowchart returned
\* are non-empty strings, no two of them equal
C11_IdsDistinct ==
  sanitized.t = "object" =>
    \A i \in 1..Len(sanitized.nodes.a) :
      /\ sanitized.nodes.a[i].id.t = "string"
      /\ sanitized.nodes.a[i].id.s # <<>>
      /\ \A j \in 1..Len(sanitized.nodes.a) :
           sanitized.nodes.a[i].id = sanitized.nodes.a[j].id => i = j

\* a raw node entry with a truthy id and a label that is present and whose text
\* is not empty
HasIdAndLabel(n) ==
  /\ Truthy(n)
  /\ Truthy(Get(n, "id"))
  /\ Truthy(Get(Get(n, "data"), "label"))
  /\ StringOf(Get(Get(n, "data"), "label")) # <<>>

\* the texts of the ids of the nodes of a graph validateFlowchart returned
SurvivingIds(g) == {g.nodes.a[i].id.s : i \in 1..Len(g.nodes.a)}

\* a raw edge entry whose source and target are present and name ids of ids
BothEndsIn(e, ids) ==
  /\ Truthy(e)
  /\ Truthy(Get(e, "source")) /\ StringOf(Get(e, "source")) \in ids
  /\ Truthy(Get(e, "target")) /\ StringOf(Get(e, "target")) \in ids

\* the returned nodes are, one for one and in order, the entries of the sequence
\* picked
NodesAre(returned, picked) ==
  /\ Len(returned) = Len(picked)
  /\ \A k \in 1..Len(picked) :
       /\ returned[k].id.s = StringOf(picked[k].id)
       /\ returned[k].data.label.s = Slice0(StringOf(picked[k].data.label), LabelMax)

\* the returned edges are, one for one and in order, the entries of the sequence
\* picked
EdgesAre(returned, picked) ==
  /\ Len(returned) = Len(picked)
  /\ \A k \in 1..Len(picked) :
       /\ returned[k].source.s = StringOf(picked[k].source)
       /\ returned[k].target.s = StringOf(picked[k].target)

\* C12 as claimed: validateFlowchart only filters.  The returned nodes are the
\* node entries with a truthy id and a non-empty label, in input order, entries
\* that share an id included; the returned edges are the edge entries whose
\* source and target are both ids of surviving nodes, in input order, each
\* entry decided on its own.
C12_OnlyFilters ==
  sanitized.t = "object" =>
    /\ NodesAre(sanitized.nodes.a, SelectSeq(candidate.nodes.a, HasIdAndLabel))
    /\ EdgesAre(sanitized.edges.a,
                SelectSeq(candidate.edges.a,
                          LAMBDA e : BothEndsIn(e, SurvivingIds(sanitized))))

\* a raw node entry the node pass keeps: its id and its label are truthy
Survives(n) ==
  /\ n.t = "object"
  /\ Truthy(Get(n, "id"))
  /\ Get(n, "data").t = "object"
  /\ Truthy(Get(Get(n, "data"), "label"))

\* the candidate is an object with an array of nodes and an array of edges
WellShaped(c) ==
  /\ c.t = "object"
  /\ Get(c, "nodes").t = "array"
  /\ Get(c, "edges").t = "array"

\* C13: validateFlowchart never returns a graph with zero nodes.  It returns
\* null when the candidate is no object with arrays of nodes and of edges, when
\* the nodes array is empty and when no node entry survives the node pass, and
\* a graph with at least one node otherwise.
C13_NeverZeroNodes ==
  sanitized # Undefined =>
    IF /\ WellShaped(candidate)
       /\ \E i \in 1..Len(candidate.nodes.a) : Survives(candidate.nodes.a[i])
      THEN sanitized.t = "object" /\ Len(sanitized.nodes.a) >= 1
      ELSE sanitized = Null

\* C13 witness: a candidate with two node entries and an edge, neither node
\* entry surviving the node pass, for which null is returned
C13_Witness ==
  /\ sanitized = Null
  /\ WellShaped(candidate)
  /\ candidate.nodes.a = <<UnlabelledNodeB, Null>>
  /\ Len(candidate.edges.a) = 1

\* ------------------------------------------------------------------------
\* Properties of generateLocalFlowchart (LocalSpec)
\* ------------------------------------------------------------------------

Generated == localGraph # Undefined
LocalNodes == localGraph.nodes.a
LocalEdges == localGraph.edges.a
LocalParts == Parts(localPrompt)

\* C17: the local generator never returns fewer than three nodes, whatever the
\* prompt: no segment, one, two, three, more than eight, with and without
\* decision keywords.
C17_AtLeastThreeNodes ==
  Generated => (localGraph.nodes.t = "array" /\ Len(LocalNodes) >= 3)

\* C17 witness: a prompt of nine segments, the first eight of which are used,
\* none of them a decision, for which eight nodes are returned
C17_Witness ==
  /\ Generated
  /\ Len(LocalParts) = 9
  /\ \A k \in 1..9 : ~isDecision(LocalParts[k])
  /\ Len(LocalNodes) = 8

\* a node as the generator writes it
NodeOf(id, type, x, y, label) ==
  [t |-> "object", id |-> Str(id), type |-> Str(type),
   position |-> [t |-> "object", x |-> Num(x), y |-> Num(y)],
   data |-> [t |-> "object", label |-> Str(label)]]

\* an edge without label as the generator writes it
EdgeOf(id, source, target) ==
  [t |-> "object", id |-> Str(id), source |-> Str(source), target |-> Str(target),
   animated |-> Bool(TRUE)]

\* the first 25 characters of the prompt as it was given
PromptText == SubSeq(localPrompt, 1, IF Len(localPrompt) < 25 THEN Len(localPrompt) ELSE 25)

\* C18: for a prompt of fewer than three trimmed non-empty segments the local
\* generator returns the fixed skeleton: the startEnd node Start, a process
\* node with the first 25 characters of the prompt (Process for the empty
\* prompt) and the startEnd node End, and the two edges from Start to the
\* process node and from there to End.
C18_Skeleton ==
  (Generated /\ Len(LocalParts) < 3) =>
    /\ LocalNodes =
         << NodeOf(<<"s", "t", "a", "r", "t">>, sStartEnd, 250, 0, <<"S", "t", "a", "r", "t">>),
            NodeOf(<<"p", "r", "o", "c", "e", "s", "s">>, sProcess, 250, 120,
                   IF localPrompt = <<>> THEN <<"P", "r", "o", "c", "e", "s", "s">>
                   ELSE PromptText),
            NodeOf(<<"e", "n", "d">>, sStartEnd, 250, 240, <<"E", "n", "d">>) >>
    /\ LocalEdges =
         << EdgeOf(<<"e", "1">>, <<"s", "t", "a", "r", "t">>,
                   <<"p", "r", "o", "c", "e", "s", "s">>),
            EdgeOf(<<"e", "2">>, <<"p", "r", "o", "c", "e", "s", "s">>, <<"e", "n", "d">>) >>

\* C18 witness: the skeleton of a prompt of one segment that is longer than a
\* label
C18_Witness ==
  /\ Generated /\ localPrompt = LongPrompt
  /\ Len(LocalParts) = 1 /\ Len(localPrompt) > 25
  /\ Len(LocalNodes[2].data.label.s) = 25

\* the edges of the returned graph that leave the node n
OutEdges(n) == {k \in 1..Len(LocalEdges) : LocalEdges[k].source = n.id}

\* an edge with a label as the generator writes it
LabelledEdgeOf(id, source, target, label) ==
  [t |-> "object", id |-> Str(id), source |-> Str(source), target |-> Str(target),
   label |-> Str(label), animated |-> Bool(TRUE)]

\* C19 as stated: for "receive order, check stock, ship order" the local
\* generator returns a linear chain of three or more nodes, from a startEnd
\* node labelled "receive order" to a startEnd node, each node but the last
\* with exactly one outgoing edge, to the next node, no decision node, and
\* every edge animated.
C19_LinearChain ==
  (Generated /\ localPrompt = OrderPrompt) =>
    /\ Len(LocalNodes) >= 3
    /\ LocalNodes[1].type = Str(sStartEnd)
    /\ LocalNodes[1].data.label = Str(<<"r", "e", "c", "e", "i", "v", "e", " ", "o", "r", "d", "e", "r">>)
    /\ LocalNodes[Len(LocalNodes)].type = Str(sStartEnd)
    /\ \A k \in 1..(Len(LocalNodes) - 1) :
         /\ Cardinality(OutEdges(LocalNodes[k])) = 1
         /\ \A e \in OutEdges(LocalNodes[k]) : LocalEdges[e].target = LocalNodes[k + 1].id
    /\ \A k \in 1..Len(LocalNodes) : LocalNodes[k].type # Str(sDecision)
    /\ \A e \in 1..Len(LocalEdges) : LocalEdges[e].animated = Bool(TRUE)

\* C19 amended: "check stock" holds the keyword check and is not the last
\* segment, so for "receive order, check stock, ship order" the local generator
\* returns the startEnd node "receive order", the decision node "check stock"
\* with its Yes and No branches Continue and Handle, and the merge node
\* startEnd End, with the five animated edges between them; "ship order"
\* labels no node.
C19_DecisionDiamond ==
  (Generated /\ localPrompt = OrderPrompt) =>
    /\ LocalNodes =
         << NodeOf(<<"s", "t", "a", "r", "t">>, sStartEnd, 250, 0, <<"r", "e", "c", "e", "i", "v", "e", " ", "o", "r", "d", "e", "r">>),
            NodeOf(<<"s", "t", "e", "p", "-", "1">>, sDecision, 250, 120, <<"c", "h", "e", "c", "k", " ", "s", "t", "o", "c", "k">>),
            NodeOf(<<"s", "t", "e", "p", "-", "1", "-", "y", "e", "s">>, sProcess, 50, 240, <<"C", "o", "n", "t", "i", "n", "u", "e">>),
            NodeOf(<<"s", "t", "e", "p", "-", "1", "-", "n", "o">>, sProcess, 450, 240, <<"H", "a", "n", "d", "l", "e">>),
            NodeOf(<<"m", "e", "r", "g", "e", "-", "1">>, sStartEnd, 250, 360, <<"E", "n", "d">>) >>
    /\ LocalEdges =
         << EdgeOf(<<"e", "-", "s", "t", "a", "r", "t", "-", "s", "t", "e", "p", "-", "1">>, <<"s", "t", "a", "r", "t">>, <<"s", "t", "e", "p", "-", "1">>),
            LabelledEdgeOf(<<"e", "-", "s", "t", "e", "p", "-", "1", "-", "s", "t", "e", "p", "-", "1", "-", "y", "e", "s">>, <<"s", "t", "e", "p", "-", "1">>, <<"s", "t", "e", "p", "-", "1", "-", "y", "e", "s">>, <<"Y", "e", "s">>),
            LabelledEdgeOf(<<"e", "-", "s", "t", "e", "p", "-", "1", "-", "s", "t", "e", "p", "-", "1", "-", "n", "o">>, <<"s", "t", "e", "p", "-", "1">>, <<"s", "t", "e", "p", "-", "1", "-", "n", "o">>, <<"N", "o">>),
            EdgeOf(<<"e", "-", "s", "t", "e", "p", "-", "1", "-", "y", "e", "s", "-", "m", "e", "r", "g", "e", "-", "1">>, <<"s", "t", "e", "p", "-", "1", "-", "y", "e", "s">>, <<"m", "e", "r", "g", "e", "-", "1">>),
            EdgeOf(<<"e", "-", "s", "t", "e", "p", "-", "1", "-", "n", "o", "-", "m", "e", "r", "g", "e", "-", "1">>, <<"s", "t", "e", "p", "-", "1", "-", "n", "o">>, <<"m", "e", "r", "g", "e", "-", "1">>) >>

\* C19 witness: the graph generated for "receive order, check stock, ship
\* order", whose second node is a decision with two outgoing edges
C19_Witness ==
  /\ Generated /\ localPrompt = OrderPrompt
  /\ Len(LocalParts) = 3 /\ isDecision(LocalParts[2])
  /\ LocalNodes[2].type = Str(sDecision)
  /\ Cardinality(OutEdges(LocalNodes[2])) = 2

\* the segment of index i (from 0) is a decision keyword segment that is not
\* the last one
Classified(parts, i) == isDecision(parts[i + 1]) /\ i < Len(parts) - 1

\* the indices the loop visits from index i on: the segment after a decision
\* is skipped, and no index from the cap on is visited
RECURSIVE VisitedFrom(_, _)
VisitedFrom(parts, i) ==
  IF i >= Len(parts) \/ i >= 8 THEN {}
  ELSE {i} \cup VisitedFrom(parts, IF Classified(parts, i) THEN i + 2 ELSE i + 1)

\* the indices of the segments the generator classifies as decisions
DecisionSegments ==
  IF Len(LocalParts) >= 3
    THEN {i \in VisitedFrom(LocalParts, 1) : Classified(LocalParts, i)}
    ELSE {}

\* the positions in the returned nodes of the node an edge leads to
TargetsOf(e) == {k \in 1..Len(LocalNodes) : LocalNodes[k].id = LocalEdges[e].target}

\* the branch node b is a process node at the horizontal offset x with
\* exactly one outgoing edge, which leads to the node m below it
BranchJoins(b, x, m) ==
  /\ LocalNodes[b].type = Str(sProcess)
  /\ LocalNodes[b].position.x = Num(x)
  /\ Cardinality(OutEdges(LocalNodes[b])) = 1
  /\ \A e \in OutEdges(LocalNodes[b]) : TargetsOf(e) = {m}
  /\ LocalNodes[m].position.y.n > LocalNodes[b].position.y.n

\* the node m is the merge node of the decision on segment i: startEnd End
\* when the following segment is the last one, otherwise a process node
\* labelled text
MergeIs(m, i, text) ==
  IF i + 1 = Len(LocalParts) - 1
    THEN /\ LocalNodes[m].type = Str(sStartEnd)
         /\ LocalNodes[m].data.label = Str(<<"E", "n", "d">>)
    ELSE /\ LocalNodes[m].type = Str(sProcess)
         /\ LocalNodes[m].data.label = Str(text)

\* the returned graph holds the diamond of the decision on segment i, with a
\* merge node labelled text when it is not the end
Diamond(i, text) ==
  \E d \in 1..Len(LocalNodes) :
    /\ LocalNodes[d].id = Str(<<"s", "t", "e", "p", "-">> \o NatToString(i))
    /\ LocalNodes[d].type = Str(sDecision)
    /\ Cardinality(OutEdges(LocalNodes[d])) = 2
    /\ \E y, n \in OutEdges(LocalNodes[d]) :
         /\ Get(LocalEdges[y], "label") = Str(<<"Y", "e", "s">>)
         /\ Get(LocalEdges[n], "label") = Str(<<"N", "o">>)
         /\ \E by \in TargetsOf(y), bn \in TargetsOf(n), m \in 1..Len(LocalNodes) :
              /\ BranchJoins(by, 50, m)
              /\ BranchJoins(bn, 450, m)
              /\ MergeIs(m, i, text)

\* C20 as stated: every segment the local generator classifies as a decision
\* gives a decision node with exactly two outgoing edges, Yes and No, to two
\* process nodes at x=50 and x=450, each with exactly one outgoing edge, both
\* to the same merge node below them, which is startEnd End when the following
\* segment is the last one and otherwise a process node whose label is the
\* following segment's text.
C20_DiamondWholeText ==
  Generated => \A i \in DecisionSegments : Diamond(i, LocalParts[i + 2])

\* C20 amended: the same, the label of a process merge node being the first 25
\* characters of the following segment's text.
C20_DiamondTruncatedText ==
  Generated =>
    \A i \in DecisionSegments :
      Diamond(i, SubSeq(LocalParts[i + 2], 1,
                        IF Len(LocalParts[i + 2]) < 25 THEN Len(LocalParts[i + 2]) ELSE 25))

\* C20 witness: the graph generated for a prompt whose segment 1 is classified
\* as a decision and is followed by a segment of more than 25 characters that
\* is not the last one, so that the merge node is a process node
C20_Witness ==
  /\ Generated /\ localPrompt = LongSegmentsPrompt
  /\ DecisionSegments = {1}
  /\ Len(LocalParts) = 4 /\ Len(LocalParts[3]) > 25
  /\ \E m \in 1..Len(LocalNodes) :
       /\ LocalNodes[m].id = Str(<<"m", "e", "r", "g", "e", "-", "1">>)
       /\ LocalNodes[m].type = Str(sProcess)
       /\ Len(LocalNodes[m].data.label.s) = 25

\* the nodes of the returned graph that lie on the main axis, in emission
\* order
MainAxis == SelectSeq(LocalNodes, LAMBDA n : n.position.x = Num(250))

\* C21: the main-axis nodes of the local generator's output appear at strictly
\* increasing vertical offsets in emission order, the step after a merge node
\* lying below that merge node, and no two nodes of one output share a
\* position.
C21_MainAxisDescends ==
  Generated =>
    /\ \A k \in 1..(Len(MainAxis) - 1) :
         MainAxis[k].position.y.n < MainAxis[k + 1].position.y.n
    /\ \A j, k \in 1..Len(LocalNodes) :
         j # k => LocalNodes[j].position # LocalNodes[k].position

\* C21, the part that holds: as long as no step follows a merge node, each
\* main-axis node lies below the one emitted before it
C21_DescendsUpToMerge ==
  Generated =>
    \A k \in 1..(Len(MainAxis) - 1) :
      MainAxis[k].position.y.n < MainAxis[k + 1].position.y.n
      \/ (/\ Len(MainAxis[k].id.s) > 5
          /\ SubSeq(MainAxis[k].id.s, 1, 5) = <<"m", "e", "r", "g", "e">>
          /\ MainAxis[k].position = MainAxis[k + 1].position)

\* the returned graph holds a decision node for segment i with an outgoing
\* edge labelled Yes and one labelled No
FansOut(i) ==
  \E d \in 1..Len(LocalNodes) :
    /\ LocalNodes[d].id = Str(<<"s", "t", "e", "p", "-">> \o NatToString(i))
    /\ LocalNodes[d].type = Str(sDecision)
    /\ \E y, n \in OutEdges(LocalNodes[d]) :
         /\ Get(LocalEdges[y], "label") = Str(<<"Y", "e", "s">>)
         /\ Get(LocalEdges[n], "label") = Str(<<"N", "o">>)

\* the indices, from 1 and below the cap of 8, of the segments that hold a
\* decision keyword and are not the final segment
KeywordSegments ==
  {i \in 1..7 : i < Len(LocalParts) - 1 /\ isDecision(LocalParts[i + 1])}

\* C22: every segment among the first 8 after segment 0 that is not the final
\* segment and holds a decision keyword is emitted as a decision node with its
\* Yes/No fan-out, a keyword segment that directly follows another decision
\* segment included.
C22_EveryKeywordSegmentDecides ==
  (Generated /\ Len(LocalParts) >= 3) => \A i \in KeywordSegments : FansOut(i)

\* C22, the part that holds: a keyword segment that is not final is emitted
\* as a decision unless it directly follows a segment emitted as a decision
C22_DecidesUnlessSwallowed ==
  (Generated /\ Len(LocalParts) >= 3) =>
    \A i \in KeywordSegments : FansOut(i) \/ (i > 1 /\ FansOut(i - 1))

\* the label texts a segment can give a node: its first 25 characters, with
\* or without its parentheses
TextsOf(part) ==
  {SubSeq(part, 1, IF Len(part) < 25 THEN Len(part) ELSE 25),
   SubSeq(StripParens(part), 1,
          IF Len(StripParens(part)) < 25 THEN Len(StripParens(part)) ELSE 25)}

\* the label texts of the 9th and later segments
LateTexts == UNION {TextsOf(LocalParts[k]) : k \in 9..Len(LocalParts)}

\* the label texts of the first 8 segments, and the fixed labels
EarlyTexts ==
  UNION {TextsOf(LocalParts[k]) : k \in 1..8}
    \cup {<<"E", "n", "d">>, <<"C", "o", "n", "t", "i", "n", "u", "e">>,
          <<"H", "a", "n", "d", "l", "e">>, <<"N", "e", "x", "t">>}

\* C23: for a prompt of more than 8 segments no node of the local generator's
\* output carries text taken from the 9th or a later segment (text a segment
\* among the first 8 has as well does not count), wherever the decision
\* segments are.
C23_OnlyFirstEight ==
  (Generated /\ Len(LocalParts) > 8) =>
    \A k \in 1..Len(LocalNodes) :
      LocalNodes[k].data.label.s \in LateTexts => LocalNodes[k].data.label.s \in EarlyTexts

\* C23, the part that holds: only the merge node of a decision on segment 7
\* carries text of a later segment, the 9th
C23_OnlyMergeOfSeven ==
  (Generated /\ Len(LocalParts) > 8) =>
    \A k \in 1..Len(LocalNodes) :
      (LocalNodes[k].data.label.s \in LateTexts
         /\ LocalNodes[k].data.label.s \notin EarlyTexts)
        => /\ LocalNodes[k].id = Str(<<"m", "e", "r", "g", "e", "-", "7">>)
           /\ LocalNodes[k].data.label.s \in TextsOf(LocalParts[9])

\* no segment of the prompt holds a decision keyword
NoKeyword == \A k \in 1..Len(LocalParts) : ~isDecision(LocalParts[k])

\* the returned nodes form one chain: one node for each of the first 8
\* segments, each node but the last with exactly one outgoing edge, to the
\* next node, the last one without outgoing edge, the first of kind startEnd
ChainOfSegments ==
  /\ Len(LocalNodes) = (IF Len(LocalParts) < 8 THEN Len(LocalParts) ELSE 8)
  /\ \A k \in 1..(Len(LocalNodes) - 1) :
       /\ Cardinality(OutEdges(LocalNodes[k])) = 1
       /\ \A e \in OutEdges(LocalNodes[k]) : TargetsOf(e) = {k + 1}
  /\ OutEdges(LocalNodes[Len(LocalNodes)]) = {}
  /\ LocalNodes[1].type = Str(sStartEnd)

\* C24: for every prompt of 3 or more segments without decision keyword the
\* local generator returns a single linear chain, one node for each processed
\* segment, whose first node and whose last node are of kind startEnd, for
\* every segment count, more than 8 included.
C24_ChainEndsInStartEnd ==
  (Generated /\ Len(LocalParts) >= 3 /\ NoKeyword) =>
    /\ ChainOfSegments
    /\ LocalNodes[Len(LocalNodes)].type = Str(sStartEnd)

\* C24, the part that holds: the chain is returned for every segment count,
\* and its last node is of kind startEnd when the prompt has at most 8
\* segments and of kind process when it has more
C24_ChainEndsAtCap ==
  (Generated /\ Len(LocalParts) >= 3 /\ NoKeyword) =>
    /\ ChainOfSegments
    /\ LocalNodes[Len(LocalNodes)].type =
         (IF Len(LocalParts) <= 8 THEN Str(sStartEnd) ELSE Str(sProcess))

\* C27: the local generator's graph is a function of the prompt alone: a later
\* call with the same prompt returns the graph the earlier call returned,
\* whatever diagram type either call is given and whatever calls were made
\* before.
C27_FunctionOfPrompt == [][Generated => localGraph' = localGraph]_vars

\* C27 witness: a second call with the same prompt and another diagram type
\* than the one the prompt came with has returned a chain with a decision
C27_Witness ==
  /\ Generated /\ localCalls = 2
  /\ localPrompt = OrderPrompt
  /\ localType = Str(<<"r", "o", "a", "d", "m", "a", "p">>)
  /\ Len(LocalNodes) = 5

\* ------------------------------------------------------------------------
\* Properties of extractJSON (ExtractSpec)
\* ------------------------------------------------------------------------

\* the text from token i to token j is a brace-delimited region that holds
\* "nodes" and decodes, alone, to an object with nodes and edges
GoodRegion(toks, i, j) ==
  /\ i < j /\ toks[i] = "{" /\ toks[j] = "}"
  /\ \E k \in i..j : HasNodesText(toks[k])
  /\ JSONParse(SubSeq(toks, i, j)).ok
  /\ Truthy(Get(JSONParse(SubSeq(toks, i, j)).val, "nodes"))
  /\ Truthy(Get(JSONParse(SubSeq(toks, i, j)).val, "edges"))

\* the opening braces less the closing braces before token i
DepthBefore(toks, i) ==
  Cardinality({k \in 1..(i - 1) : toks[k] = "{"})
    - Cardinality({k \in 1..(i - 1) : toks[k] = "}"})

\* an object with nodes and edges
IsGraphObject(v) ==
  v.t = "object" /\ Truthy(Get(v, "nodes")) /\ Truthy(Get(v, "edges"))

\* C25: whenever the raw text holds a balanced brace-delimited region that
\* holds "nodes" and decodes to an object with nodes and edges, extractJSON
\* returns such an object, whatever precedes, follows or encloses the region.
C25_RegionAlwaysFound ==
  (extractedAlone # Undefined
     /\ \E i, j \in 1..Len(rawText) : GoodRegion(rawText, i, j))
    => IsGraphObject(extractedAlone)

\* C25, the part that holds: such a region is found when the braces before it
\* are balanced
C25_RegionFoundAtDepthZero ==
  (extractedAlone # Undefined
     /\ \E i, j \in 1..Len(rawText) :
          GoodRegion(rawText, i, j) /\ DepthBefore(rawText, i) = 0)
    => IsGraphObject(extractedAlone)

\* extractJSON accepted the text alone, and was applied to it in a fence
ExtractedBoth ==
  /\ extractedAlone \notin {Undefined, Null}
  /\ fencedExtracted # Undefined

\* C26 as stated: for every payload text that extractJSON accepts alone, the
\* text in a triple-backtick fence, with or without the json tag, gives the
\* same extraction result.
C26_FenceTransparent == ExtractedBoth => fencedExtracted = extractedAlone

\* C26 amended: the same for every accepted payload text that holds no fence
\* marker itself.
C26_FenceTransparentIfFenceFree ==
  (ExtractedBoth /\ \A k \in 1..Len(rawText) : rawText[k] # FenceMarker)
    => fencedExtracted = extractedAlone

\* C26 witness: an object with nodes and edges after a word of prose, which
\* is accepted alone by the brace scan, is extracted from the fence as well
C26_Witness ==
  /\ rawText = <<"p">> \o Object("Nab", "Eab")
  /\ ExtractedBoth
  /\ IsGraphObject(fencedExtracted)
  /\ fencedExtracted.nodes = NodesValueOf("Nab")

\* ------------------------------------------------------------------------
\* Properties of concurrent requests (ConcSpec)
\* ------------------------------------------------------------------------

\* the locals of request r
RequestOf(r) == IF running = r THEN Own ELSE parked

\* the attempts of a request are the producers in their order, each one made
\* because all attempts before it gave no graph
OwnChain(req) ==
  \A k \in 1..Len(req.callLog) :
    /\ req.callLog[k].producer = Order[k]
    /\ k < Len(req.callLog) => req.callLog[k].result = "none"

\* the response of a request that ran alone and met the outcomes of req's
\* own attempts: the graph of the envelope its last attempt decoded with the
\* tag of that attempt, or the local graph of its own prompt
AloneResponse(req) ==
  IF req.callLog[Len(req.callLog)].producer = "local"
    THEN SuccessResponse(LocalGraphs[req.body], req.body.prompt, req.body.diagramType, "local")
    ELSE SuccessResponse(Processed[req.received].outcome.value, req.body.prompt,
                         req.body.diagramType,
                         TagOf(req.callLog[Len(req.callLog)].producer))

\* C28: two concurrent requests are independent under every interleaving of
\* their provider attempts: the attempts and the response of each request are
\* those it would make and give alone with the same provider outcomes, and a
\* step of one request (a failure, a timeout, an abort, a response) changes
\* nothing of the other request.
C28_RequestsIndependent ==
  /\ [](\A r \in {1, 2} :
          /\ OwnChain(RequestOf(r))
          /\ RequestOf(r).body = ConcBody(r)
          /\ RequestOf(r).pc = "done" => RequestOf(r).response = AloneResponse(RequestOf(r)))
  /\ [][/\ running' = running => parked' = parked
        /\ running' # running => (parked' = Own /\ Own' = parked)]_vars

\* C28 witness: request 1 has answered with its local graph after its first
\* attempt timed out and its second failed, and request 2, whose first attempt
\* gave a graph, has answered with that graph
C28_Witness ==
  /\ RequestOf(1).pc = "done" /\ RequestOf(2).pc = "done"
  /\ RequestOf(1).callLog[1].event = "timeout"
  /\ RequestOf(1).response.body.usedAI = "local"
  /\ Len(RequestOf(2).callLog) = 1
  /\ RequestOf(2).response.body.usedAI = "nvidia-nim"
  /\ RequestOf(1).response.body.nodes # RequestOf(2).response.body.nodes

====
